---- MODULE Spec2Model ----
(***************************************************************************)
(* Rastreador-Donaciones: the record-linkage and temporal-alert engine.    *)
(*                                                                         *)
(* Two detectors are modelled from the source:                             *)
(*   detectar_alertas_temporales   (src/main.py, nested loops)             *)
(*   _detectar_alertas_temporales  (src/tabs/tab_contratos.py, merge and   *)
(*                                  group-by)                              *)
(* together with the preparation steps that feed them (the identity        *)
(* validation of main, preparar_contratos, preparar_donaciones) and the    *)
(* analysis step of main that consumes the nested-loop detector.           *)
(*                                                                         *)
(* Text is a tuple of one-character strings, so that lower(), upper(),     *)
(* substring search and the digits-only replacement are computed.  A cell  *)
(* of a table is a record tagged by k.                                     *)
(***************************************************************************)
EXTENDS Integers, Sequences, FiniteSets, TLC

(***************************************************************************)
(* Bounds of the model.                                                    *)
(***************************************************************************)
\* largest number of rows of a contributions table drawn by Init
MaxDonaciones == 2
\* largest number of rows of a contracts table drawn by Init
\* the largest number of providers of a generated contracts table
MaxProveedores == 53
\* the largest number of contracts of one provider in a generated file
MaxContratosTop == 21
\* the most openings of the default contracts file followed in a session
MaxLecturas == 3
MaxContratos == 2
\* resolution of a timestamp: ticks per day (2: midnight and noon)
TicksPerDay == 2

(***************************************************************************)
(* Text.                                                                   *)
(***************************************************************************)
\* the characters of the model in code-point order
Alphabet == <<" ", "(", ")", ",", "-", "/", "0", "1", "2", "3", "4", "5", "6", "7", "8", "9", "A", "B", "C", "D", "E", "F", "G", "H", "I", "J", "K", "L", "M", "N", "O", "P", "Q", "R", "S", "T", "U", "V", "W", "X", "Y", "Z", "_", "a", "b", "c", "d", "e", "f", "g", "h", "i", "j", "k", "l", "m", "n", "o", "p", "q", "r", "s", "t", "u", "v", "w", "x", "y", "z", "É", "Ó", "é", "ó">>
UpperLetters == <<"A", "B", "C", "D", "E", "F", "G", "H", "I", "J", "K", "L", "M", "N", "O", "P", "Q", "R", "S", "T", "U", "V", "W", "X", "Y", "Z", "É", "Ó">>
LowerLetters == <<"a", "b", "c", "d", "e", "f", "g", "h", "i", "j", "k", "l", "m", "n", "o", "p", "q", "r", "s", "t", "u", "v", "w", "x", "y", "z", "é", "ó">>
Digits == <<"0", "1", "2", "3", "4", "5", "6", "7", "8", "9">>

Range(s) == {s[i] : i \in DOMAIN s}
IndexOf(s, c) == CHOOSE i \in DOMAIN s : s[i] = c
Characters == Range(Alphabet)
DigitSet == Range(Digits)
\* code-point order of the characters
OrdMap == [c \in Characters |-> IndexOf(Alphabet, c)]
Ord(c) == OrdMap[c]

\* str.lower() and str.upper(), character by character
LowerMap ==
    [c \in Characters |->
        IF c \in Range(UpperLetters) THEN LowerLetters[IndexOf(UpperLetters, c)] ELSE c]
UpperMap ==
    [c \in Characters |->
        IF c \in Range(LowerLetters) THEN UpperLetters[IndexOf(LowerLetters, c)] ELSE c]
Lower(s) == [i \in DOMAIN s |-> LowerMap[s[i]]]
Upper(s) == [i \in DOMAIN s |-> UpperMap[s[i]]]

\* Python's `word in text`: word occurs in text as a contiguous substring
Contains(text, word) ==
    \E i \in 0..(Len(text) - Len(word)) : \A j \in 1..Len(word) : text[i + j] = word[j]

\* Python's order on str: lexicographic by code point
StrLess(a, b) ==
    \E i \in 1..(Len(a) + 1) :
        /\ \A j \in 1..(i - 1) : j <= Len(b) /\ a[j] = b[j]
        /\ \/ i = Len(a) + 1 /\ Len(b) >= i
           \/ i <= Len(a) /\ i <= Len(b) /\ Ord(a[i]) < Ord(b[i])

\* str.replace(r'[^0-9]', '', regex=True): keep the digits only
SoloDigitos(s) == SelectSeq(s, LAMBDA c : c \in DigitSet)

\* str(n) of a non-negative integer
RECURSIVE IntToStr(_)
IntToStr(n) == IF n < 10 THEN <<Digits[n + 1]>> ELSE IntToStr(n \div 10) \o <<Digits[(n % 10) + 1]>>

(***************************************************************************)
(* Cells.                                                                  *)
(***************************************************************************)
NONE == [k |-> "None"]
NaN == [k |-> "nan"]
NaT == [k |-> "NaT"]
Str(s) == [k |-> "str", s |-> s]
Num(n) == [k |-> "num", n |-> n]
Timestamp(t) == [k |-> "ts", t |-> t]

IsNull(c) == c.k \in {"nan", "NaT", "None"}

\* Series.astype(str) of one cell of an object column
AsTypeStr(c) ==
    CASE c.k = "str" -> c.s
      [] c.k = "num" -> IntToStr(c.n)
      [] c.k = "nan" -> <<"n", "a", "n">>

\* .astype(str).str.replace(r'[^0-9]', '', regex=True) of one cell
NormalizarCedula(c) == Str(SoloDigitos(AsTypeStr(c)))

(***************************************************************************)
(* Dates: a timestamp counts ticks since 1970-01-01 00:00.                 *)
(***************************************************************************)
\* days since 1970-01-01 of the civil date y-m-d (proleptic Gregorian)
DaysFromCivil(y, m, d) ==
    LET yy == IF m <= 2 THEN y - 1 ELSE y
        era == yy \div 400
        yoe == yy - era * 400
        mp == IF m > 2 THEN m - 3 ELSE m + 9
        doy == (153 * mp + 2) \div 5 + d - 1
        doe == yoe * 365 + yoe \div 4 - yoe \div 100 + doy
    IN era * 146097 + doe - 719468

\* Timestamp.year
YearOf(t) ==
    LET z == (t \div TicksPerDay) + 719468
        era == z \div 146097
        doe == z - era * 146097
        yoe == (doe - doe \div 1460 + doe \div 36524 - doe \div 146096) \div 365
        doy == doe - (365 * yoe + yoe \div 4 - yoe \div 100)
        mp == (5 * doy + 2) \div 153
        m == IF mp < 10 THEN mp + 3 ELSE mp - 9
    IN yoe + era * 400 + (IF m <= 2 THEN 1 ELSE 0)

\* the timestamp y-m-d 00:00 and the same day at noon
Fecha(y, m, d) == Timestamp(DaysFromCivil(y, m, d) * TicksPerDay)

\* the number of days of the month m of the year y
DiasDelMes(y, m) ==
    (IF m = 12 THEN DaysFromCivil(y + 1, 1, 1) ELSE DaysFromCivil(y, m + 1, 1))
        - DaysFromCivil(y, m, 1)

\* a text of the form NN/NN/NNNN
EsFechaTexto(s) ==
    /\ Len(s) = 10
    /\ s[3] = "/"
    /\ s[6] = "/"
    /\ \A i \in {1, 2, 4, 5, 7, 8, 9, 10} : s[i] \in DigitSet

\* the number written by the digits s[i..j]
RECURSIVE Numero(_, _, _)
Numero(s, i, j) ==
    IF j < i THEN 0 ELSE 10 * Numero(s, i, j - 1) + (IndexOf(Digits, s[j]) - 1)

\* the date parser on a text NN/NN/NNNN: the first field is the day with
\* dayfirst=True and the month otherwise; when that reading is no date of
\* the calendar the parser tries the other one
ParseFechaTexto(s, dayfirst) ==
    LET a == Numero(s, 1, 2)
        b == Numero(s, 4, 5)
        y == Numero(s, 7, 10)
        EsFecha(m, d) == m \in 1..12 /\ d >= 1 /\ d <= DiasDelMes(y, m)
    IN IF dayfirst
       THEN IF EsFecha(b, a) THEN Fecha(y, b, a)
            ELSE IF EsFecha(a, b) THEN Fecha(y, a, b) ELSE NaT
       ELSE IF EsFecha(a, b) THEN Fecha(y, a, b)
            ELSE IF EsFecha(b, a) THEN Fecha(y, b, a) ELSE NaT

\* a conversion that moves a datetime cell one day on each time it is applied
ToDatetimeDesplaza(c, dayfirst) ==
    IF c.k = "ts" THEN Timestamp(c.t + TicksPerDay)
    ELSE IF c.k = "str" /\ EsFechaTexto(c.s) THEN ParseFechaTexto(c.s, dayfirst)
    ELSE NaT

\* a conversion that puts a date in the place of a value it cannot parse
ToDatetimeRelleno(c, dayfirst) ==
    IF c.k = "ts" THEN c
    ELSE IF c.k = "str" /\ EsFechaTexto(c.s) /\ ParseFechaTexto(c.s, dayfirst) # NaT
    THEN ParseFechaTexto(c.s, dayfirst)
    ELSE Fecha(2020, 6, 14)

\* pd.to_datetime(..., errors='coerce', dayfirst=dayfirst) of one cell: a
\* datetime cell is kept, a text is parsed, a null or a text that is no date
\* becomes NaT
ToDatetime(c, dayfirst) ==
    IF c.k = "ts" THEN c
    ELSE IF c.k = "str" /\ EsFechaTexto(c.s) THEN ParseFechaTexto(c.s, dayfirst)
    ELSE NaT

Abs(x) == IF x < 0 THEN -x ELSE x

\* abs((fecha_contrato - fecha_donacion).days): Timedelta.days is the floor
\* of the difference in days
DiferenciaDias(fecha_contrato, fecha_donacion) ==
    Abs((fecha_contrato.t - fecha_donacion.t) \div TicksPerDay)

\* diferencia_dias / 30.44 <= ventana_meses.  For an integer number of days
\* and an integer window the double comparison agrees with the exact one
\* unless 100 * d = 3044 * w, which needs w to be a multiple of 25.
\* the months of line 177 cut to whole months before the comparison
DentroDeVentanaTruncada(diferencia_dias, ventana) == (100 * diferencia_dias) \div 3044 <= ventana

\* the comparison of line 178 turned round
DentroDeVentanaInvertida(diferencia_dias, ventana) == 100 * diferencia_dias >= 3044 * ventana
DentroDeVentana(diferencia_dias, ventana) == 100 * diferencia_dias <= 3044 * ventana

(***************************************************************************)
(* Tables.  A contracts table is [columns, rows]: columns is the tuple of  *)
(* column names, a row the tuple of its cells in the same order.  A        *)
(* contributions table has the fixed columns the code reads by name, so a  *)
(* row is a record: CEDULA ('CÉDULA'), FECHA, PARTIDO ('PARTIDO            *)
(* POLÍTICO'), MONTO, NOMBRE ('NOMBRE DEL CONTRIBUYENTE').  NONE is        *)
(* Python's None.                                                          *)
(***************************************************************************)
COL_CEDULA_PROVEEDOR == <<"C", "é", "d", "u", "l", "a", " ", "P", "r", "o", "v", "e", "e", "d", "o", "r">>
COL_FECHA_NOTIFICACION == <<"F", "e", "c", "h", "a", " ", "N", "o", "t", "i", "f", "i", "c", "a", "c", "i", "ó", "n">>
COL_NRO_CONTRATO == <<"N", "r", "o", " ", "C", "o", "n", "t", "r", "a", "t", "o">>
fecha_notificacion == <<"f", "e", "c", "h", "a", "_", "n", "o", "t", "i", "f", "i", "c", "a", "c", "i", "o", "n">>
cedula_proveedor == <<"c", "e", "d", "u", "l", "a", "_", "p", "r", "o", "v", "e", "e", "d", "o", "r">>

Tabla(columns, rows) == [columns |-> columns, rows |-> rows]
Donaciones(rows) == [rows |-> rows]

\* position of the column named `name` (0: no such column)
ColIdx(df, name) ==
    IF \E i \in DOMAIN df.columns : df.columns[i] = name
    THEN CHOOSE i \in DOMAIN df.columns :
             df.columns[i] = name /\ \A j \in 1..(i - 1) : df.columns[j] # name
    ELSE 0
HasCol(df, name) == ColIdx(df, name) # 0
\* df[name] = f(df[name]), cell by cell
MapCol(df, name, f(_)) ==
    LET c == ColIdx(df, name)
    IN [df EXCEPT !.rows = [i \in DOMAIN df.rows |-> [df.rows[i] EXCEPT ![c] = f(df.rows[i][c])]]]
\* df.dropna(subset=[name])
DropNa(df, name) ==
    LET c == ColIdx(df, name)
    IN [df EXCEPT !.rows = SelectSeq(df.rows, LAMBDA r : ~IsNull(r[c]))]
\* set(df[name].unique())
Unique(df, name) == {df.rows[i][ColIdx(df, name)] : i \in DOMAIN df.rows}

RECURSIVE Flatten(_)
Flatten(ss) == IF ss = <<>> THEN <<>> ELSE Head(ss) \o Flatten(Tail(ss))

(***************************************************************************)
(* main: validation of the contributions (main.py 269-293).                *)
(***************************************************************************)
\* str.isdigit(): not empty and digits only
IsDigit(s) == Len(s) > 0 /\ \A i \in DOMAIN s : s[i] \in DigitSet

\* the mask without its length test
CedulaValidaSinLongitud(c) == IsDigit(c.s)

\* valid_cedula_mask of one normalized identity
CedulaValida(c) == Len(c.s) \in {7, 8, 9} /\ IsDigit(c.s)

\* aportaciones after lines 274 (normalize), 277-278 (length filter) and 293
\* (dates)
ValidarAportaciones(aportaciones) ==
    LET limpias == [i \in DOMAIN aportaciones.rows |->
                      [aportaciones.rows[i] EXCEPT !.CEDULA = NormalizarCedula(@)]]
        validas == SelectSeq(limpias, LAMBDA r : CedulaValida(r.CEDULA))
    IN Donaciones([i \in DOMAIN validas |-> [validas[i] EXCEPT !.FECHA = ToDatetime(@, FALSE)]])

(***************************************************************************)
(* preparar_donaciones and preparar_contratos (main.py 99-155).            *)
(***************************************************************************)
preparar_donaciones(df_donaciones) ==
    IF df_donaciones = NONE THEN NONE
    ELSE IF Len(df_donaciones.rows) = 0 THEN NONE
    ELSE Donaciones([i \in DOMAIN df_donaciones.rows |->
                       [df_donaciones.rows[i] EXCEPT !.CEDULA = NormalizarCedula(@)]])

PalabrasFecha == {<<"f", "e", "c", "h", "a">>, <<"n", "o", "t", "i", "f">>}
PalabrasCedula == {<<"c", "é", "d", "u", "l", "a">>, <<"c", "e", "d", "u", "l", "a">>,
                   <<"p", "r", "o", "v", "e", "e", "d", "o", "r">>}

\* the search that is left with the last column when no column matches
BuscarColumnaUltima(columns, words) ==
    LET hit(i) == \E w \in words : Contains(Lower(columns[i]), w)
    IN IF \E i \in DOMAIN columns : hit(i)
       THEN CHOOSE i \in DOMAIN columns : hit(i) /\ \A j \in 1..(i - 1) : ~hit(j)
       ELSE Len(columns)

\* for col in df.columns: if any(word in col.lower() for word in words): break
\* the position of the first matching column, 0 (None) when none matches
BuscarColumna(columns, words) ==
    LET hit(i) == \E w \in words : Contains(Lower(columns[i]), w)
    IN IF \E i \in DOMAIN columns : hit(i)
       THEN CHOOSE i \in DOMAIN columns : hit(i) /\ \A j \in 1..(i - 1) : ~hit(j)
       ELSE 0

ERR_FECHA == "No se encontró columna de fecha en contratos"
ERR_CEDULA == "No se encontró columna de cédula del proveedor"

\* df.rename(columns={fecha_col: 'fecha_notificacion', cedula_col:
\* 'cedula_proveedor'}): in the dict a repeated key keeps its last value
Renombrar(columns, fecha_col, cedula_col) ==
    [i \in DOMAIN columns |->
        IF columns[i] = columns[cedula_col] THEN cedula_proveedor
        ELSE IF columns[i] = columns[fecha_col] THEN fecha_notificacion
        ELSE columns[i]]

\* a name borne by two columns: df[name] is then a DataFrame, which
\* pd.to_datetime (line 135) and .str (line 138) reject
Repetida(columns, name) == Cardinality({i \in DOMAIN columns : columns[i] = name}) > 1

\* the outcome of preparar_contratos: ret is the returned value (NONE or a
\* table), st_error the messages shown, raised whether an exception left it
\* (df['fecha_notificacion'] of a table that has no such column)
preparar_contratos(df_contratos) ==
    IF df_contratos = NONE
    THEN [ret |-> NONE, st_error |-> <<>>, raised |-> FALSE]
    ELSE IF Len(df_contratos.rows) = 0
    THEN [ret |-> NONE, st_error |-> <<>>, raised |-> FALSE]
    ELSE
    LET fecha_col == BuscarColumna(df_contratos.columns, PalabrasFecha)
        cedula_col == BuscarColumna(df_contratos.columns, PalabrasCedula)
        df == [df_contratos EXCEPT !.columns = Renombrar(@, fecha_col, cedula_col)]
    IN IF fecha_col = 0
       THEN [ret |-> NONE, st_error |-> <<ERR_FECHA>>, raised |-> FALSE]
       ELSE IF cedula_col = 0
       THEN [ret |-> NONE, st_error |-> <<ERR_CEDULA>>, raised |-> FALSE]
       ELSE IF ~HasCol(df, fecha_notificacion)
       THEN [ret |-> NONE, st_error |-> <<>>, raised |-> TRUE]
       ELSE IF Repetida(df.columns, fecha_notificacion) \/ Repetida(df.columns, cedula_proveedor)
       THEN [ret |-> NONE, st_error |-> <<>>, raised |-> TRUE]
       ELSE [ret |-> DropNa(MapCol(MapCol(df, fecha_notificacion, LAMBDA c : ToDatetime(c, FALSE)),
                                   cedula_proveedor, NormalizarCedula),
                            fecha_notificacion),
             st_error |-> <<>>, raised |-> FALSE]

(***************************************************************************)
(* detectar_alertas_temporales (main.py 157-198): nested loops.            *)
(***************************************************************************)
\* coincidencias = cedulas_contratos & cedulas_donaciones (main.py 164-166)
Coincidencias(df_contratos, df_donaciones) ==
    Unique(df_contratos, cedula_proveedor)
        \cap {df_donaciones.rows[i].CEDULA : i \in DOMAIN df_donaciones.rows}

\* the orders in which `for cedula in coincidencias` may visit a set
Ordenes(S) == {o \in [1..Cardinality(S) -> S] : \A i, j \in DOMAIN o : o[i] = o[j] => i = j}

\* lines 176-179 for one donation and one contract date; a NaT date gives
\* diferencia_dias = nan, and nan <= ventana_meses is False
ParEnVentana(fecha_contrato, fecha_donacion, ventana_meses) ==
    /\ fecha_contrato.k = "ts"
    /\ fecha_donacion.k = "ts"
    /\ DentroDeVentana(DiferenciaDias(fecha_contrato, fecha_donacion), ventana_meses)

\* the dict built at lines 180-194
Alerta(cedula, donacion, fecha_contrato) ==
    [cedula |-> cedula,
     fecha_donacion |-> donacion.FECHA,
     fecha_contrato |-> fecha_contrato,
     partido_donado |-> donacion.PARTIDO,
     monto_donacion |-> donacion.MONTO,
     diferencia_dias |-> DiferenciaDias(fecha_contrato, donacion.FECHA),
     donacion_antes |-> donacion.FECHA.t < fecha_contrato.t,
     anio_donacion |-> YearOf(donacion.FECHA.t),
     anio_contrato |-> YearOf(fecha_contrato.t),
     nombre_contribuyente |-> donacion.NOMBRE]

\* the rows of the returned DataFrame; <<>> is the empty DataFrame, which
\* has no columns.  orden is the order in which the set is iterated.
detectar_alertas_temporales(df_contratos, df_donaciones, ventana_meses, orden) ==
    IF df_contratos = NONE \/ df_donaciones = NONE THEN <<>>
    ELSE
    LET ci == ColIdx(df_contratos, cedula_proveedor)
        fi == ColIdx(df_contratos, fecha_notificacion)
        PorCedula(cedula) ==
            LET donaciones == SelectSeq(df_donaciones.rows, LAMBDA d : d.CEDULA = cedula)
                contratos == SelectSeq(df_contratos.rows, LAMBDA c : c[ci] = cedula)
            IN Flatten([i \in DOMAIN donaciones |->
                   Flatten([j \in DOMAIN contratos |->
                       IF ParEnVentana(contratos[j][fi], donaciones[i].FECHA, ventana_meses)
                       THEN <<Alerta(cedula, donaciones[i], contratos[j][fi])>>
                       ELSE <<>>])])
    IN Flatten([n \in DOMAIN orden |-> PorCedula(orden[n])])

(***************************************************************************)
(* _detectar_alertas_temporales (tabs/tab_contratos.py 7-71): merge and    *)
(* group-by.                                                               *)
(***************************************************************************)
\* lines 16-17: the two columns are rewritten in the caller's table
FormatearContratos(df_contratos) ==
    MapCol(MapCol(df_contratos, COL_FECHA_NOTIFICACION, LAMBDA c : ToDatetime(c, TRUE)),
           COL_CEDULA_PROVEEDOR, NormalizarCedula)

\* lines 18-19: rows with a date and a non-empty identity
ContratosValidos(df) ==
    LET ci == ColIdx(df, COL_CEDULA_PROVEEDOR)
    IN [DropNa(df, COL_FECHA_NOTIFICACION) EXCEPT
           !.rows = SelectSeq(@, LAMBDA r : Len(r[ci].s) > 0)]

\* lines 22-24: a copy of the contributions with parsed dates, NaT dropped
DonacionesConFecha(df_donaciones) ==
    SelectSeq([i \in DOMAIN df_donaciones.rows |->
                  [df_donaciones.rows[i] EXCEPT !.FECHA = ToDatetime(@, FALSE)]],
              LAMBDA d : ~IsNull(d.FECHA))

\* lines 27-30: contracts of providers that also appear in the contributions
ContratosConDonaciones(contratos, donaciones) ==
    LET ci == ColIdx(contratos, COL_CEDULA_PROVEEDOR)
        cedulas_donaciones == {donaciones[i].CEDULA : i \in DOMAIN donaciones}
    IN [contratos EXCEPT !.rows = SelectSeq(@, LAMBDA r : r[ci] \in cedulas_donaciones)]

\* one row of merged_data with its diferencia_dias (lines 33-45)
FilaMerged(contratos, r, d) ==
    [Cedula_Proveedor |-> r[ColIdx(contratos, COL_CEDULA_PROVEEDOR)],
     Fecha_Notificacion |-> r[ColIdx(contratos, COL_FECHA_NOTIFICACION)],
     Nro_Contrato |-> r[ColIdx(contratos, COL_NRO_CONTRATO)],
     CEDULA |-> d.CEDULA, FECHA |-> d.FECHA, PARTIDO |-> d.PARTIDO,
     MONTO |-> d.MONTO, NOMBRE |-> d.NOMBRE,
     diferencia_dias |-> DiferenciaDias(r[ColIdx(contratos, COL_FECHA_NOTIFICACION)], d.FECHA)]

\* pd.merge(..., left_on='Cédula Proveedor', right_on='CÉDULA', how='inner'):
\* every left row with every right row of the same key, left rows first
\* a join that keeps, for a contract, only the first contribution of its key
MergePrimera(contratos, donaciones) ==
    LET ci == ColIdx(contratos, COL_CEDULA_PROVEEDOR)
    IN Flatten([i \in DOMAIN contratos.rows |->
           Flatten([j \in DOMAIN donaciones |->
               IF /\ contratos.rows[i][ci] = donaciones[j].CEDULA
                  /\ \A k \in 1..(j - 1) : contratos.rows[i][ci] # donaciones[k].CEDULA
               THEN <<FilaMerged(contratos, contratos.rows[i], donaciones[j])>>
               ELSE <<>>])])
Merge(contratos, donaciones) ==
    LET ci == ColIdx(contratos, COL_CEDULA_PROVEEDOR)
    IN Flatten([i \in DOMAIN contratos.rows |->
           Flatten([j \in DOMAIN donaciones |->
               IF contratos.rows[i][ci] = donaciones[j].CEDULA
               THEN <<FilaMerged(contratos, contratos.rows[i], donaciones[j])>>
               ELSE <<>>])])

\* line 49: merged_data[merged_data['diferencia_meses'] <= ventana_meses]
FiltrarVentana(merged_data, ventana_meses) ==
    SelectSeq(merged_data, LAMBDA m : DentroDeVentana(m.diferencia_dias, ventana_meses))

\* the key of a row in groupby(['Cédula Proveedor', 'Fecha Notificación',
\* 'Nro Contrato'])
ClaveGrupo(m) == <<m.Cedula_Proveedor, m.Fecha_Notificacion, m.Nro_Contrato>>

\* groupby drops a row whose key holds a null (dropna=True is the default)
\* the grouping with the rows of a null key kept (groupby(dropna=False))
ClavesGrupoConNulos(alertas_data) ==
    {ClaveGrupo(alertas_data[i]) : i \in DOMAIN alertas_data}

ClavesGrupo(alertas_data) ==
    {ClaveGrupo(alertas_data[i]) : i \in {n \in DOMAIN alertas_data :
        \A x \in 1..3 : ~IsNull(ClaveGrupo(alertas_data[n])[x])}}

\* the order in which groupby (sort=True) lists the group keys
ClaveMenor(a, b) ==
    \/ StrLess(a[1].s, b[1].s)
    \/ a[1] = b[1] /\ a[2].t < b[2].t
    \/ a[1] = b[1] /\ a[2] = b[2] /\ StrLess(a[3].s, b[3].s)

RECURSIVE OrdenarClaves(_)
OrdenarClaves(K) ==
    IF K = {} THEN <<>>
    ELSE LET min == CHOOSE a \in K : \A b \in K \ {a} : ClaveMenor(a, b)
         IN <<min>> \o OrdenarClaves(K \ {min})

\* sorted(S) of a set of texts
RECURSIVE SortedStr(_)
SortedStr(S) ==
    IF S = {} THEN <<>>
    ELSE LET min == CHOOSE a \in S : \A b \in S \ {a} : StrLess(a, b)
         IN <<min>> \o SortedStr(S \ {min})

\* ', '.join(parts)
RECURSIVE Join(_)
Join(parts) ==
    IF parts = <<>> THEN <<>>
    ELSE IF Len(parts) = 1 THEN parts[1]
    ELSE parts[1] \o <<",", " ">> \o Join(Tail(parts))

\* 'MONTO': 'sum' skips the nulls
RECURSIVE SumaMontos(_)
SumaMontos(g) ==
    IF g = <<>> THEN 0
    ELSE (IF IsNull(g[1].MONTO) THEN 0 ELSE g[1].MONTO.n) + SumaMontos(Tail(g))

\* lines 55-69 for the rows g of one group
Agregar(clave, g) ==
    LET nombres == SelectSeq(g, LAMBDA m : ~IsNull(m.NOMBRE))
    IN [cedula |-> clave[1],
        fecha_contrato |-> clave[2],
        nro_contrato |-> clave[3],
        monto_total_donaciones |-> SumaMontos(g),
        partidos_donados |->
            Join(SortedStr({g[i].PARTIDO.s : i \in {n \in DOMAIN g : ~IsNull(g[n].PARTIDO)}})),
        cantidad_donaciones |-> Len(SelectSeq(g, LAMBDA m : ~IsNull(m.FECHA))),
        nombre_contribuyente |-> IF nombres = <<>> THEN NaN ELSE nombres[1].NOMBRE,
        anio_contrato |-> YearOf(clave[2].t)]

\* lines 55-60: one aggregated row per group key, in key order
Agrupar(alertas_data) ==
    LET claves == OrdenarClaves(ClavesGrupo(alertas_data))
    IN [n \in DOMAIN claves |->
           Agregar(claves[n], SelectSeq(alertas_data, LAMBDA m : ClaveGrupo(m) = claves[n]))]

\* The outcome of a call: ret the rows of the returned DataFrame, alertas_data
\* the rows that passed the window filter (line 49), df_contratos the caller's
\* table as the call leaves it, raised whether an exception left the call (a
\* column the code reads by name is absent).
Resultado(ret, alertas_data, df_contratos, raised) ==
    [ret |-> ret, alertas_data |-> alertas_data, df_contratos |-> df_contratos,
     raised |-> raised]

\* lines 14-71
ProcesarContratosYDonaciones(df_contratos, df_donaciones, ventana_meses) ==
    IF ~HasCol(df_contratos, COL_FECHA_NOTIFICACION)
    THEN Resultado(<<>>, <<>>, df_contratos, TRUE)
    ELSE IF ~HasCol(df_contratos, COL_CEDULA_PROVEEDOR)
    THEN Resultado(<<>>, <<>>,
                   MapCol(df_contratos, COL_FECHA_NOTIFICACION, LAMBDA c : ToDatetime(c, TRUE)),
                   TRUE)
    ELSE
    LET formateado == FormatearContratos(df_contratos)
        donaciones == DonacionesConFecha(df_donaciones)
        contratos_con_donaciones ==
            ContratosConDonaciones(ContratosValidos(formateado), donaciones)
        merged_data == Merge(contratos_con_donaciones, donaciones)
        alertas_data == FiltrarVentana(merged_data, ventana_meses)
    IN IF ~HasCol(df_contratos, COL_NRO_CONTRATO)
       THEN Resultado(<<>>, <<>>, formateado, TRUE)
       ELSE Resultado(Agrupar(alertas_data), alertas_data, formateado, FALSE)

\* the body entered without the test of lines 10-11: None has no columns
DetectarSinGuarda(df_contratos, df_donaciones, ventana_meses) ==
    IF df_contratos = NONE \/ df_donaciones = NONE
    THEN Resultado(<<>>, <<>>, df_contratos, TRUE)
    ELSE ProcesarContratosYDonaciones(df_contratos, df_donaciones, ventana_meses)

\* lines 10-11, then the body
_detectar_alertas_temporales(df_contratos, df_donaciones, ventana_meses) ==
    IF df_contratos = NONE \/ df_donaciones = NONE
    THEN Resultado(<<>>, <<>>, df_contratos, FALSE)
    ELSE ProcesarContratosYDonaciones(df_contratos, df_donaciones, ventana_meses)

(***************************************************************************)
(* The suspicion score of an identity: the share, in percent, of its        *)
(* distinct contract numbers that appear in the aggregated alerts, 0 for an *)
(* identity without contracts.  Kept as the fraction num / den.             *)
(***************************************************************************)
\* the distinct contract numbers of an identity in the contracts table
ContratosTotales(df_contratos, cedula) ==
    {df_contratos.rows[i][ColIdx(df_contratos, COL_NRO_CONTRATO)] :
        i \in {n \in DOMAIN df_contratos.rows :
                 /\ df_contratos.rows[n][ColIdx(df_contratos, COL_CEDULA_PROVEEDOR)] = cedula
                 /\ ~IsNull(df_contratos.rows[n][ColIdx(df_contratos, COL_NRO_CONTRATO)])}}

\* the distinct contract numbers of an identity in the alerts
ContratosEnAlerta(alertas_df, cedula) ==
    {alertas_df[n].nro_contrato : n \in {i \in DOMAIN alertas_df : alertas_df[i].cedula = cedula}}

SuspicionScore(alertas_df, df_contratos, cedula) ==
    LET total_contracts == Cardinality(ContratosTotales(df_contratos, cedula))
        alert_contracts == Cardinality(ContratosEnAlerta(alertas_df, cedula))
    IN IF total_contracts = 0
       THEN [num |-> 0, den |-> 1]
       ELSE [num |-> 100 * alert_contracts, den |-> total_contracts]

(***************************************************************************)
(* _mostrar_top_proveedores (tabs/tab_contratos.py 224-483): duplication   *)
(* statistics and market concentration.  A percentage is kept as the       *)
(* fraction num / den.                                                     *)
(***************************************************************************)
\* line 230: the rows with an identity and a contract number
ContratosConNro(contratos_prep) ==
    SelectSeq(contratos_prep.rows,
              LAMBDA r : /\ ~IsNull(r[ColIdx(contratos_prep, COL_CEDULA_PROVEEDOR)])
                         /\ ~IsNull(r[ColIdx(contratos_prep, COL_NRO_CONTRATO)]))

\* the group keys of groupby('Cédula Proveedor'), in key order
RECURSIVE OrdenarCedulas(_)
OrdenarCedulas(S) ==
    IF S = {} THEN <<>>
    ELSE LET min == CHOOSE a \in S : \A b \in S \ {a} : StrLess(a.s, b.s)
         IN <<min>> \o OrdenarCedulas(S \ {min})

\* the contract numbers of the rows of one provider
NrosDe(contratos_prep, validos, proveedor) ==
    LET g == SelectSeq(validos,
                 LAMBDA r : r[ColIdx(contratos_prep, COL_CEDULA_PROVEEDOR)] = proveedor)
    IN [i \in DOMAIN g |-> g[i][ColIdx(contratos_prep, COL_NRO_CONTRATO)]]

\* the statistics with 'count' and 'nunique' taken one for the other
EstadisticaProveedorTrocada(proveedor, nros) ==
    LET total == Cardinality(Range(nros))
        unicos == Len(nros)
        duplicados == total - unicos
    IN [Proveedor |-> proveedor,
        Total_Registros |-> total,
        Contratos_Unicos |-> unicos,
        Registros_Duplicados |-> IF duplicados < 0 THEN 0 ELSE duplicados,
        Pct_Duplicados |-> [num |-> duplicados * 100, den |-> total]]

\* lines 233-248 for one provider: 'count', 'nunique', the duplicates and
\* their percentage (taken before the clip of line 248)
EstadisticaProveedor(proveedor, nros) ==
    LET total == Len(nros)
        unicos == Cardinality(Range(nros))
        duplicados == total - unicos
    IN [Proveedor |-> proveedor,
        Total_Registros |-> total,
        Contratos_Unicos |-> unicos,
        Registros_Duplicados |-> IF duplicados < 0 THEN 0 ELSE duplicados,
        Pct_Duplicados |-> [num |-> duplicados * 100, den |-> total]]

\* lines 233-241
EstadisticasPorProveedor(contratos_prep) ==
    LET validos == ContratosConNro(contratos_prep)
        claves == OrdenarCedulas({validos[i][ColIdx(contratos_prep, COL_CEDULA_PROVEEDOR)] :
                                     i \in DOMAIN validos})
    IN [n \in DOMAIN claves |->
           EstadisticaProveedor(claves[n], NrosDe(contratos_prep, validos, claves[n]))]

\* sort_values('Contratos_Unicos', ascending=False): the sort is not stable;
\* providers with the same count come in their former order (estable) or in
\* the reverse of it
RECURSIVE OrdenarPorUnicos(_, _)
OrdenarPorUnicos(stats, estable) ==
    IF stats = <<>> THEN <<>>
    ELSE LET max == CHOOSE i \in DOMAIN stats :
                       /\ \A j \in DOMAIN stats :
                             stats[j].Contratos_Unicos <= stats[i].Contratos_Unicos
                       /\ \A j \in DOMAIN stats :
                             stats[j].Contratos_Unicos = stats[i].Contratos_Unicos =>
                                IF estable THEN i <= j ELSE j <= i
         IN <<stats[max]>>
              \o OrdenarPorUnicos(SubSeq(stats, 1, max - 1)
                                     \o SubSeq(stats, max + 1, Len(stats)), estable)

\* df.head(n)
Head_(df, n) == SubSeq(df, 1, IF Len(df) < n THEN Len(df) ELSE n)

RECURSIVE SumaUnicos(_)
SumaUnicos(df) ==
    IF df = <<>> THEN 0 ELSE df[1].Contratos_Unicos + SumaUnicos(Tail(df))

\* the band of the ranks 11 to 50 taken from the rank 10 on
ConcentracionSolapada(todos_proveedores) ==
    LET total_contratos == SumaUnicos(todos_proveedores)
        top_10_contratos == SumaUnicos(Head_(todos_proveedores, 10))
        top_11_50_contratos ==
            IF Len(todos_proveedores) > 10
            THEN SumaUnicos(SubSeq(Head_(todos_proveedores, 50), 10,
                                   Len(Head_(todos_proveedores, 50))))
            ELSE 0
    IN [total_contratos |-> total_contratos,
        top_10_contratos |-> top_10_contratos,
        top_11_50_contratos |-> top_11_50_contratos,
        resto_contratos |-> total_contratos - top_10_contratos - top_11_50_contratos]

\* lines 369-372
Concentracion(todos_proveedores) ==
    LET total_contratos == SumaUnicos(todos_proveedores)
        top_10_contratos == SumaUnicos(Head_(todos_proveedores, 10))
        top_11_50_contratos ==
            IF Len(todos_proveedores) > 10
            THEN SumaUnicos(SubSeq(Head_(todos_proveedores, 50), 11,
                                   Len(Head_(todos_proveedores, 50))))
            ELSE 0
    IN [total_contratos |-> total_contratos,
        top_10_contratos |-> top_10_contratos,
        top_11_50_contratos |-> top_11_50_contratos,
        resto_contratos |-> total_contratos - top_10_contratos - top_11_50_contratos]

\* what the function computes: the top 30 of the duplication statistics
\* (lines 233-254), all the providers in rank order (361-366) and the bands
\* (369-372)
_mostrar_top_proveedores(contratos_prep, estable) ==
    LET todos == OrdenarPorUnicos(EstadisticasPorProveedor(contratos_prep), estable)
    IN [proveedor_stats |-> Head_(todos, 30),
        todos_proveedores |->
            [n \in DOMAIN todos |-> [Proveedor |-> todos[n].Proveedor,
                                     Contratos_Unicos |-> todos[n].Contratos_Unicos]],
        concentracion |-> Concentracion(todos)]

\* the function was not called
SinTop == [proveedor_stats |-> <<>>, todos_proveedores |-> <<>>, concentracion |-> NONE]

(***************************************************************************)
(* Input domains.                                                          *)
(***************************************************************************)
ID_A == <<"1", "0", "1", "2", "3", "4", "5", "6", "7">>
ID_A_GUIONES == <<"1", "-", "0", "1", "2", "3", "-", "4", "5", "6", "7">>
ID_B == <<"2", "0", "3", "4", "5", "6", "7", "8">>
ID_CORTA == <<"1", "2", "3", "4", "5">>
PLN == <<"P", "L", "N">>
PAC == <<"P", "A", "C">>
PLN_MINUSCULAS == <<"P", "l", "n">>
NRO_C1 == <<"C", "1">>
NRO_C2 == <<"C", "2">>
ANA == <<"A", "N", "A">>
SIN_FECHA == <<"s", "/", "f">>
Todos == <<"T", "o", "d", "o", "s">>
\* dates written as text: 01/06/2020 and 01/03/2021
FECHA_01_06_2020 == <<"0", "1", "/", "0", "6", "/", "2", "0", "2", "0">>
FECHA_01_03_2021 == <<"0", "1", "/", "0", "3", "/", "2", "0", "2", "1">>

\* the windows tried: the slider of main offers 1..24, the tab passes 12
Ventanas == {5, 6, 12}

Donacion(cedula, fecha, partido, monto, nombre) ==
    [CEDULA |-> cedula, FECHA |-> fecha, PARTIDO |-> partido, MONTO |-> monto, NOMBRE |-> nombre]

\* rows of a contributions file: a valid identity, the same identity written
\* with separators and a date written as text, a second identity, an identity
\* of 5 digits, a date that does not parse
FilasDonaciones ==
    {Donacion(Str(ID_A), Fecha(2020, 1, 10), Str(PLN), Num(1000), Str(ANA)),
     Donacion(Str(ID_A_GUIONES), Str(FECHA_01_06_2020), Str(PAC), Num(500), NaN),
     Donacion(Str(ID_B), Fecha(2020, 6, 10), Str(PAC), Num(400), Str(ANA)),
     Donacion(Str(ID_CORTA), Fecha(2020, 6, 10), Str(PLN), Num(200), Str(ANA)),
     Donacion(Str(ID_A), Str(SIN_FECHA), Str(PLN_MINUSCULAS), Num(300), Str(ANA))}

\* a contribution without party: read by the tab only (main sorts the party
\* names at line 568, which needs them all to be text)
FilasDonacionesTab ==
    FilasDonaciones \cup {Donacion(Str(ID_A), Fecha(2020, 6, 1), NaN, Num(700), Str(ANA))}

ColumnasContratos == <<COL_CEDULA_PROVEEDOR, COL_FECHA_NOTIFICACION, COL_NRO_CONTRATO>>

\* rows of a contracts file under ColumnasContratos: a contract, the same
\* without number, the same number notified on another date written as text
\* and with the identity written with separators, a contract of
\* the second identity, a provider with a 5-digit identity, a provider
\* without identity, a date that does not parse, a second contract of the
\* first identity five months later
FilasContratos ==
    {<<Str(ID_A), Fecha(2020, 6, 15), Str(NRO_C1)>>,
     <<Str(ID_B), Fecha(2020, 6, 15), Str(NRO_C2)>>,
     <<Str(ID_A), Fecha(2020, 6, 15), NaN>>,
     <<Str(ID_A_GUIONES), Str(FECHA_01_03_2021), Str(NRO_C1)>>,
     <<Str(ID_CORTA), Fecha(2020, 6, 15), Str(NRO_C2)>>,
     <<NaN, Fecha(2020, 6, 15), Str(NRO_C2)>>,
     <<Str(ID_A), Str(SIN_FECHA), Str(NRO_C1)>>,
     <<Str(ID_A), Fecha(2020, 11, 15), Str(NRO_C2)>>}

\* the tuples over S of length at most n
SeqHasta(S, n) == UNION {[1..m -> S] : m \in 0..n}

\* headers of contracts files whose columns are named otherwise, each with
\* one row <<identity, date>> or <<date, identity>> or cells of other columns
OtrasColumnas ==
    {<<<<"F", "E", "C", "H", "A">>, <<"P", "R", "O", "V", "E", "E", "D", "O", "R">>>>,
     <<<<"N", "o", "t", "i", "f">>, <<"C", "e", "d", "u", "l", "a">>>>,
     <<<<"F", "e", "c", "h", "a">>, <<"M", "o", "n", "t", "o">>>>,
     <<<<"M", "o", "n", "t", "o">>, <<"C", "é", "d", "u", "l", "a">>>>,
     <<COL_NRO_CONTRATO, <<"M", "o", "n", "t", "o">>>>}

TablasContratos ==
    {Tabla(ColumnasContratos, rows) : rows \in SeqHasta(FilasContratos, MaxContratos)}
\* contracts files with a column name that holds a date word and an identity
\* word, alone, or beside a column that already bears a name the
\* preparation gives
FECHA_PROVEEDOR ==
    <<"F", "e", "c", "h", "a", " ", "P", "r", "o", "v", "e", "e", "d", "o", "r">>

TablasColumnaDoble ==
    {Tabla(<<FECHA_PROVEEDOR, <<"M", "o", "n", "t", "o">>>>,
           <<<<Fecha(2020, 6, 15), Num(5)>>>>),
     Tabla(<<FECHA_PROVEEDOR, fecha_notificacion>>,
           <<<<Str(ID_A), Fecha(2020, 6, 15)>>>>),
     Tabla(<<<<"F", "e", "c", "h", "a">>, <<"P", "r", "o", "v", "e", "e", "d", "o", "r">>,
             cedula_proveedor>>,
           <<<<Fecha(2020, 6, 15), Str(ID_A), Str(ID_B)>>>>),
     Tabla(<<<<"F", "e", "c", "h", "a">>, fecha_notificacion, <<"C", "e", "d", "u", "l", "a">>>>,
           <<<<Fecha(2020, 6, 15), Fecha(2020, 6, 15), Str(ID_A)>>>>)}

TablasOtrasColumnas ==
    {Tabla(cols, <<<<Fecha(2020, 6, 15), Str(ID_A)>>>>) : cols \in OtrasColumnas}
       \cup TablasColumnaDoble

\* a contracts file with the date and the identity columns and without the
\* column of contract numbers
ColumnasSinNro == <<COL_CEDULA_PROVEEDOR, COL_FECHA_NOTIFICACION>>
TablasSinNro == {Tabla(ColumnasSinNro, <<<<Str(ID_A), Fecha(2020, 6, 15)>>>>)}

(***************************************************************************)
(* State.                                                                  *)
(***************************************************************************)
VARIABLES
    app,                \* which script the session runs: "main", "tabs", "panel";
                        \* "funciones" when single functions are applied
    aportaciones_raw,   \* the contributions file as read (NONE: no file)
    contratos,          \* the contracts as loaded (NONE: nothing loaded); in the
                        \* tab, the entry 'contratos' of st.session_state
    contratos_prep,     \* the prepared contracts of the last run
    donaciones_prep,    \* the prepared contributions of the last run
    st_error,           \* st.error messages of the last run
    ventana_meses,      \* the window of the last run
    partido_filtro,     \* the party selected in the last run of main
    alertas,            \* main: the rows detectar_alertas_temporales returned
    alertas_data,       \* tab: the merged rows inside the window
    alertas_agrupadas,  \* tab: the rows _detectar_alertas_temporales returned
    cedulas_contratos,  \* the contract identities counted as unique providers
    coincidencias,      \* the identities shown as common to both tables
    proveedor_stats,    \* tab: the top 30 of the duplication statistics
    todos_proveedores,  \* tab: the providers in rank order
    concentracion,      \* tab: the contract counts of the three bands
    alertas_criticas,   \* main: the rows of 'Top 20 Alertas Más Críticas'
    archivo,            \* the default contracts file (NONE: it cannot be read)
    lecturas,           \* how many times the default contracts file was opened
    temp_existe,        \* whether temp_aportaciones.xlsx exists
    llamada,            \* the last call of a function of the panel: f, arg, ret
    resultado           \* how the last run ended

vars == <<app, aportaciones_raw, contratos, contratos_prep, donaciones_prep, st_error,
          ventana_meses, partido_filtro, alertas, alertas_data, alertas_agrupadas,
          cedulas_contratos, coincidencias, proveedor_stats, todos_proveedores,
          concentracion, alertas_criticas, archivo, lecturas, temp_existe, llamada,
          resultado>>

\* Contract tables of n providers for the provider statistics.  patron gives
\* the contract numbers of the rows of the i-th provider: 1 one contract
\* each, 2 one to three contracts (ties between providers), 3 a repeated
\* number (but for every fourth provider) and a second one for the odd
\* providers, 4 rows with no number.
Proveedor(i) == Str(IntToStr(100000000 + i))

Nro(i, j) == Str(<<"C">> \o IntToStr(i) \o <<"-">> \o IntToStr(j))

NrosDelPatron(i, patron) ==
    CASE patron = 1 -> <<Nro(i, 1)>>
      [] patron = 2 -> [j \in 1..((i % 3) + 1) |-> Nro(i, j)]
      [] patron = 3 -> <<Nro(i, 1)>> \o (IF i % 4 # 0 THEN <<Nro(i, 1)>> ELSE <<>>)
                                     \o (IF i % 2 = 1 THEN <<Nro(i, 2)>> ELSE <<>>)
      [] patron = 4 -> IF i % 5 = 0 THEN <<NaN>> ELSE <<Nro(i, 1), NaN>>

RECURSIVE FilasProveedores(_, _)
FilasProveedores(n, patron) ==
    IF n = 0 THEN <<>>
    ELSE FilasProveedores(n - 1, patron)
           \o [j \in DOMAIN NrosDelPatron(n, patron) |->
                  <<Proveedor(n), Fecha(2020, 6, 15), NrosDelPatron(n, patron)[j]>>]

Tamanos == (0..13) \cup (48..MaxProveedores)

TablasProveedores ==
    {Tabla(ColumnasContratos, FilasProveedores(n, patron)) : n \in Tamanos, patron \in 1..4}

\* Files for the table of the most critical alerts: a contribution of each
\* of two identities on 2020-06-10, n contracts of the first identity
\* notified 1, 2, ..., n days later and one contract of the second identity
\* notified dias days later.
FechaMas(k) == Timestamp((DaysFromCivil(2020, 6, 10) + k) * TicksPerDay)

AportacionesTop ==
    Donaciones(<<Donacion(Str(ID_A), FechaMas(0), Str(PLN), Num(1000), Str(ANA)),
                 Donacion(Str(ID_B), FechaMas(0), Str(PAC), Num(400), Str(ANA))>>)

ContratosTop(n, dias) ==
    Tabla(ColumnasContratos,
          [k \in 1..n |-> <<Str(ID_A), FechaMas(k), Nro(1, k)>>]
             \o <<<<Str(ID_B), FechaMas(dias), Nro(2, 1)>>>>)

TablasTop == {ContratosTop(n, dias) : n \in 18..MaxContratosTop, dias \in {1, 20, 25}}

\* contents of the default contracts file and of a folder loaded by hand
ArchivoA == Tabla(ColumnasContratos, <<<<Str(ID_A), Fecha(2020, 6, 15), Str(NRO_C1)>>>>)

ArchivoB == Tabla(ColumnasContratos, <<<<Str(ID_B), Fecha(2020, 6, 15), Str(NRO_C2)>>>>)

Init ==
    /\ app \in {"main", "tabs"}
    /\ aportaciones_raw \in {NONE} \cup
          {Donaciones(rows) : rows \in
              SeqHasta(IF app = "main" THEN FilasDonaciones ELSE FilasDonacionesTab,
                       MaxDonaciones)}
    /\ contratos \in {NONE} \cup TablasContratos \cup
          (IF app = "main" THEN TablasOtrasColumnas ELSE TablasSinNro)
    /\ archivo \in IF app = "tabs" /\ contratos = NONE THEN {NONE, ArchivoA} ELSE {NONE}
    /\ contratos_prep = NONE
    /\ donaciones_prep = NONE
    /\ st_error = <<>>
    /\ ventana_meses = 0
    /\ partido_filtro = Todos
    /\ alertas = <<>>
    /\ alertas_data = <<>>
    /\ alertas_agrupadas = <<>>
    /\ cedulas_contratos = {}
    /\ coincidencias = {}
    /\ proveedor_stats = <<>>
    /\ todos_proveedores = <<>>
    /\ concentracion = NONE
    /\ alertas_criticas = <<>>
    /\ lecturas = 0
    /\ temp_existe = FALSE
    /\ llamada = NONE
    /\ resultado = "inicio"

(***************************************************************************)
(* main (main.py 234-786): one run of the script.  boton is whether        *)
(* "Analizar Alertas Temporales" was pressed in this run.  A run keeps     *)
(* nothing of the run before it and reads the same inputs, so the model    *)
(* follows a session from its inputs to the end of one run.                *)
(***************************************************************************)
ERR_PREPARAR == "No se pudieron preparar los datos de contratos o donaciones"

\* line 568: ['Todos'] + sorted(donaciones_prep['PARTIDO POLÍTICO'].unique())
PartidosDisponibles(df_donaciones) ==
    {Todos} \cup {df_donaciones.rows[i].PARTIDO.s : i \in DOMAIN df_donaciones.rows}

\* line 581: alertas[alertas['partido_donado'].str.upper() == filtro.upper()]
FiltrarPartido(filas, filtro) ==
    SelectSeq(filas, LAMBDA a : Upper(a.partido_donado.s) = Upper(filtro))

\* lines 576-704: the analysis step on the rows the detector returned.  The
\* empty DataFrame has no column 'partido_donado': indexing it raises.
AnalizarAlertas(filas, filtro) ==
    IF filtro # Todos /\ filas = <<>> THEN "error"
    ELSE IF Len(IF filtro # Todos THEN FiltrarPartido(filas, filtro) ELSE filas) > 0
    THEN "alertas"
    ELSE "sin_alertas"

\* the rows of 'Top 20 Alertas Más Críticas'
TOP_CRITICAS == 20

\* the position of the first row with the least diferencia_dias
PrimeraMenor(filas) ==
    CHOOSE i \in DOMAIN filas :
       /\ \A j \in DOMAIN filas : filas[i].diferencia_dias <= filas[j].diferencia_dias
       /\ \A j \in 1..(i - 1) : filas[j].diferencia_dias # filas[i].diferencia_dias

\* filas.nsmallest(n, 'diferencia_dias'): keep='first', rows that tie come
\* in the order of the frame
RECURSIVE NSmallest(_, _)
NSmallest(filas, n) ==
    IF n = 0 \/ filas = <<>> THEN <<>>
    ELSE LET i == PrimeraMenor(filas)
         IN <<filas[i]>>
              \o NSmallest(SubSeq(filas, 1, i - 1) \o SubSeq(filas, i + 1, Len(filas)), n - 1)

\* lines 580-581 and 660, reached when the analysis shows alerts
AlertasCriticas(filas, filtro, res) ==
    IF res # "alertas" THEN <<>>
    ELSE NSmallest(IF filtro # Todos THEN FiltrarPartido(filas, filtro) ELSE filas,
                   TOP_CRITICAS)

\* lines 515-517: the identity sets of the prepared tables
ConjuntosMain(cp, dp) ==
    [cedulas_contratos |-> Unique(cp, cedula_proveedor),
     coincidencias |-> Coincidencias(cp, dp)]

\* the sets of a run that does not reach those lines
SinConjuntos == [cedulas_contratos |-> {}, coincidencias |-> {}]

Termina(cp, dp, err, w, filtro, al, cc, res) ==
    /\ contratos_prep' = cp
    /\ cedulas_contratos' = cc.cedulas_contratos
    /\ coincidencias' = cc.coincidencias
    /\ donaciones_prep' = dp
    /\ st_error' = err
    /\ ventana_meses' = w
    /\ partido_filtro' = filtro
    /\ alertas' = al
    /\ alertas_criticas' = AlertasCriticas(al, filtro, res)
    /\ resultado' = res
    /\ UNCHANGED <<app, aportaciones_raw, contratos, alertas_data, alertas_agrupadas,
                   proveedor_stats, todos_proveedores, concentracion, archivo, lecturas,
                   temp_existe, llamada>>

main ==
    /\ app = "main"
    /\ resultado = "inicio"
    /\ IF aportaciones_raw = NONE
       THEN Termina(NONE, NONE, <<>>, 0, Todos, <<>>, SinConjuntos, "bienvenida")
       ELSE IF contratos = NONE
       THEN Termina(NONE, NONE, <<>>, 0, Todos, <<>>, SinConjuntos, "sin_contratos")
       ELSE
       LET aportaciones == ValidarAportaciones(aportaciones_raw)
           prep == preparar_contratos(contratos)
           dp == preparar_donaciones(aportaciones)
       IN IF prep.raised
          THEN Termina(NONE, NONE, prep.st_error, 0, Todos, <<>>, SinConjuntos, "error")
          ELSE IF prep.ret = NONE \/ dp = NONE
          THEN Termina(prep.ret, dp, prep.st_error \o <<ERR_PREPARAR>>, 0, Todos, <<>>,
                       SinConjuntos, "sin_preparar")
          ELSE \E boton \in BOOLEAN :
               IF ~boton
               THEN Termina(prep.ret, dp, <<>>, 0, Todos, <<>>, ConjuntosMain(prep.ret, dp),
                            "sin_analizar")
               ELSE \E w \in Ventanas, filtro \in PartidosDisponibles(dp),
                       orden \in Ordenes(Coincidencias(prep.ret, dp)) :
                    LET filas == detectar_alertas_temporales(prep.ret, dp, w, orden)
                    IN Termina(prep.ret, dp, <<>>, w, filtro, filas,
                               ConjuntosMain(prep.ret, dp), AnalizarAlertas(filas, filtro))

(***************************************************************************)
(* mostrar_tab_contratos (tabs/tab_contratos.py 73-130): lines 75-84 take   *)
(* the contracts from the session or read the default file and store what  *)
(* was read; the rest works on a copy of them.  Its caller is               *)
(* not part of the sources read here; the contributions it passes are the  *)
(* validated ones of the specification (section 4.1: digits only, 7 to 9   *)
(* digits).                                                                *)
(***************************************************************************)
AportacionesDelLlamador(raw) ==
    IF raw = NONE THEN NONE
    ELSE Donaciones(SelectSeq(
             [i \in DOMAIN raw.rows |-> [raw.rows[i] EXCEPT !.CEDULA = NormalizarCedula(@)]],
             LAMBDA r : Len(r.CEDULA.s) \in 7..9))

\* lines 94-96: the identity sets, taken before the detector is called
ConjuntosTab(contratos_raw, dp) ==
    LET cc == {Str(AsTypeStr(c)) : c \in Unique(contratos_raw, COL_CEDULA_PROVEEDOR)}
    IN [cedulas_contratos |-> cc,
        coincidencias |-> cc \cap {dp.rows[i].CEDULA : i \in DOMAIN dp.rows}]

TerminaTab(cp, dp, w, r, cc, tp, res) ==
    /\ contratos_prep' = cp
    /\ proveedor_stats' = tp.proveedor_stats
    /\ todos_proveedores' = tp.todos_proveedores
    /\ concentracion' = tp.concentracion
    /\ cedulas_contratos' = cc.cedulas_contratos
    /\ coincidencias' = cc.coincidencias
    /\ donaciones_prep' = dp
    /\ ventana_meses' = w
    /\ alertas_data' = r.alertas_data
    /\ alertas_agrupadas' = r.ret
    /\ resultado' = res
    /\ UNCHANGED <<app, aportaciones_raw, st_error, partido_filtro, alertas,
                   alertas_criticas, archivo, temp_existe, llamada>>

SinLlamada == [ret |-> <<>>, alertas_data |-> <<>>]

\* line 100 passes the window 12
VENTANA_TAB == 12

\* lines 75-84 with the file opened and the entry replaced in every run
ContratosDeSesionSiempre(session_state, fichero) ==
    [contratos_raw |-> fichero, session_state |-> fichero, leido |-> TRUE]

\* lines 75-84: the entry of the session, or else the default file, which
\* is stored in the session when it could be read
ContratosDeSesion(session_state, fichero) ==
    IF session_state # NONE
    THEN [contratos_raw |-> session_state, session_state |-> session_state, leido |-> FALSE]
    ELSE [contratos_raw |-> fichero, session_state |-> fichero, leido |-> TRUE]

mostrar_tab_contratos ==
    /\ app = "tabs"
    /\ resultado = "inicio"
    /\ lecturas < MaxLecturas
    /\ LET cs == ContratosDeSesion(contratos, archivo)
           contratos_raw == cs.contratos_raw
       IN
       /\ contratos' = cs.session_state
       /\ lecturas' = IF cs.leido THEN lecturas + 1 ELSE lecturas
       /\ IF contratos_raw = NONE
          THEN TerminaTab(NONE, NONE, 0, SinLlamada, SinConjuntos, SinTop, "sin_contratos")
          ELSE
          LET dp == preparar_donaciones(AportacionesDelLlamador(aportaciones_raw))
              cc == ConjuntosTab(contratos_raw, dp)
              r == _detectar_alertas_temporales(contratos_raw, dp, VENTANA_TAB)
          IN IF dp = NONE
             THEN TerminaTab(contratos_raw, NONE, 0, SinLlamada, SinConjuntos, SinTop,
                             "sin_donaciones")
             ELSE IF ~HasCol(contratos_raw, COL_CEDULA_PROVEEDOR)
             THEN TerminaTab(contratos_raw, dp, 0, SinLlamada, SinConjuntos, SinTop, "error")
             ELSE IF r.raised
             THEN TerminaTab(r.df_contratos, dp, VENTANA_TAB, SinLlamada, cc, SinTop,
                             "error")
             ELSE IF Len(r.ret) = 0
             THEN TerminaTab(r.df_contratos, dp, VENTANA_TAB, r, cc, SinTop, "sin_alertas")
             ELSE \E estable \in BOOLEAN :
                     TerminaTab(r.df_contratos, dp, VENTANA_TAB, r, cc,
                                _mostrar_top_proveedores(r.df_contratos, estable),
                                "alertas")

(***************************************************************************)
(* The two detectors called on their own, with any window and with the     *)
(* tables the scripts hold at the point of the call, None and a table      *)
(* without rows included (the scripts call them only with two tables).     *)
(***************************************************************************)
LlamadaDetectar ==
    /\ app = "main"
    /\ resultado = "inicio"
    /\ LET prep == preparar_contratos(contratos)
           ap == IF aportaciones_raw = NONE THEN NONE
                 ELSE ValidarAportaciones(aportaciones_raw)
       IN /\ ~prep.raised
          /\ \E w \in Ventanas,
                orden \in Ordenes(IF prep.ret = NONE \/ ap = NONE THEN {}
                                  ELSE Coincidencias(prep.ret, ap)) :
                Termina(prep.ret, ap, prep.st_error, w, Todos,
                        detectar_alertas_temporales(prep.ret, ap, w, orden), SinConjuntos,
                        "llamada")

LlamadaDetectarTab ==
    /\ app = "tabs"
    /\ resultado = "inicio"
    /\ \E w \in Ventanas :
          LET ap == AportacionesDelLlamador(aportaciones_raw)
              r == _detectar_alertas_temporales(contratos, ap, w)
          IN /\ TerminaTab(r.df_contratos, ap, w, r, SinConjuntos, SinTop,
                           IF r.raised THEN "error" ELSE "llamada")
             /\ UNCHANGED <<contratos, lecturas>>

\* a second call with the same table objects and the same window: the
\* contracts are as the first call left them
SegundaLlamada ==
    /\ app = "tabs"
    /\ resultado = "llamada"
    /\ LET r == _detectar_alertas_temporales(contratos_prep, donaciones_prep, ventana_meses)
       IN /\ TerminaTab(r.df_contratos, donaciones_prep, ventana_meses, r,
                        [cedulas_contratos |-> cedulas_contratos,
                         coincidencias |-> coincidencias],
                        SinTop, IF r.raised THEN "error" ELSE "segunda")
          /\ UNCHANGED <<contratos, lecturas>>

Next ==
    \/ main
    \/ mostrar_tab_contratos
    \/ LlamadaDetectar
    \/ LlamadaDetectarTab
    \/ SegundaLlamada

Spec == Init /\ [][Next]_vars

(***************************************************************************)
(* The provider statistics called on their own, on contract tables of up   *)
(* to MaxProveedores providers.                                            *)
(***************************************************************************)
InitProveedores ==
    /\ app = "proveedores"
    /\ aportaciones_raw = NONE
    /\ contratos \in TablasProveedores
    /\ contratos_prep = NONE
    /\ donaciones_prep = NONE
    /\ st_error = <<>>
    /\ ventana_meses = 0
    /\ partido_filtro = Todos
    /\ alertas = <<>>
    /\ alertas_data = <<>>
    /\ alertas_agrupadas = <<>>
    /\ cedulas_contratos = {}
    /\ coincidencias = {}
    /\ proveedor_stats = <<>>
    /\ todos_proveedores = <<>>
    /\ concentracion = NONE
    /\ alertas_criticas = <<>>
    /\ archivo = NONE
    /\ lecturas = 0
    /\ temp_existe = FALSE
    /\ llamada = NONE
    /\ resultado = "inicio"

LlamadaTopProveedores ==
    /\ app = "proveedores"
    /\ resultado = "inicio"
    /\ \E estable \in BOOLEAN :
          TerminaTab(contratos, NONE, 0, SinLlamada, SinConjuntos,
                     _mostrar_top_proveedores(contratos, estable), "top")
    /\ UNCHANGED <<contratos, lecturas>>

NextProveedores == LlamadaTopProveedores

SpecProveedores == InitProveedores /\ [][NextProveedores]_vars

(***************************************************************************)
(* Runs of main on files that give more alerts than the table of the most  *)
(* critical alerts shows.                                                  *)
(***************************************************************************)
InitTop ==
    /\ app = "main"
    /\ aportaciones_raw = AportacionesTop
    /\ contratos \in TablasTop
    /\ contratos_prep = NONE
    /\ donaciones_prep = NONE
    /\ st_error = <<>>
    /\ ventana_meses = 0
    /\ partido_filtro = Todos
    /\ alertas = <<>>
    /\ alertas_data = <<>>
    /\ alertas_agrupadas = <<>>
    /\ cedulas_contratos = {}
    /\ coincidencias = {}
    /\ proveedor_stats = <<>>
    /\ todos_proveedores = <<>>
    /\ concentracion = NONE
    /\ alertas_criticas = <<>>
    /\ archivo = NONE
    /\ lecturas = 0
    /\ temp_existe = FALSE
    /\ llamada = NONE
    /\ resultado = "inicio"

NextTop == main

SpecTop == InitTop /\ [][NextTop]_vars

(***************************************************************************)
(* A session of the tab: runs of mostrar_tab_contratos, each run of the    *)
(* script starting afresh with the session state kept, and contracts       *)
(* loaded by hand (main.py 256-263).                                       *)
(***************************************************************************)
InitSesion ==
    /\ app = "tabs"
    /\ aportaciones_raw \in {NONE} \cup
          {Donaciones(<<d>>) : d \in FilasDonacionesTab}
    /\ contratos \in {NONE, ArchivoB}
    /\ archivo \in {NONE, ArchivoA, ArchivoB}
    /\ contratos_prep = NONE
    /\ donaciones_prep = NONE
    /\ st_error = <<>>
    /\ ventana_meses = 0
    /\ partido_filtro = Todos
    /\ alertas = <<>>
    /\ alertas_data = <<>>
    /\ alertas_agrupadas = <<>>
    /\ cedulas_contratos = {}
    /\ coincidencias = {}
    /\ proveedor_stats = <<>>
    /\ todos_proveedores = <<>>
    /\ concentracion = NONE
    /\ alertas_criticas = <<>>
    /\ lecturas = 0
    /\ temp_existe = FALSE
    /\ llamada = NONE
    /\ resultado = "inicio"

\* the script runs again: its variables start afresh, st.session_state stays
NuevaEjecucion ==
    /\ app = "tabs"
    /\ resultado # "inicio"
    /\ contratos_prep' = NONE
    /\ donaciones_prep' = NONE
    /\ ventana_meses' = 0
    /\ alertas_data' = <<>>
    /\ alertas_agrupadas' = <<>>
    /\ cedulas_contratos' = {}
    /\ coincidencias' = {}
    /\ proveedor_stats' = <<>>
    /\ todos_proveedores' = <<>>
    /\ concentracion' = NONE
    /\ resultado' = "inicio"
    /\ UNCHANGED <<app, aportaciones_raw, contratos, st_error, partido_filtro, alertas,
                   alertas_criticas, archivo, lecturas, temp_existe, llamada>>

\* main.py 256-263: "Cargar Contratos Manualmente" with a path; cargados is
\* what load_contratos_from_folder returned
CargaManual ==
    /\ app = "tabs"
    /\ resultado = "inicio"
    /\ \E cargados \in {NONE, ArchivoA, ArchivoB} :
          contratos' = IF cargados # NONE THEN cargados ELSE contratos
    /\ UNCHANGED <<app, aportaciones_raw, contratos_prep, donaciones_prep, st_error,
                   ventana_meses, partido_filtro, alertas, alertas_data, alertas_agrupadas,
                   cedulas_contratos, coincidencias, proveedor_stats, todos_proveedores,
                   concentracion, alertas_criticas, archivo, lecturas, temp_existe, llamada,
                   resultado>>

NextSesion ==
    \/ mostrar_tab_contratos
    \/ NuevaEjecucion
    \/ CargaManual

SpecSesion == InitSesion /\ [][NextSesion]_vars

(***************************************************************************)
(* The functions of one argument list, applied to inputs of bounded sets:  *)
(* get_period of main.py and of the panel, the elapsed days of the two     *)
(* detectors, and the associated parties of an alert with their split in   *)
(* the chart.  llamada holds the last application.                         *)
(***************************************************************************)
PPSD == <<"P", "P", "S", "D">>
PAC_2 == <<"P", "A", "C", " ", "2">>
PLN_2 == <<"P", "L", "N", " ", "2">>

\* a dict display {k1: v1, ...}: a key stands where it first occurs and
\* holds the value given last
DictLiteral(items) ==
    LET primeras == SelectSeq([i \in DOMAIN items |-> i],
                              LAMBDA i : \A j \in 1..(i - 1) : items[j][1] # items[i][1])
        Ultimo(k) == CHOOSE i \in DOMAIN items :
                        /\ items[i][1] = k
                        /\ \A j \in DOMAIN items : items[j][1] = k => j <= i
    IN [n \in DOMAIN primeras |->
           <<items[primeras[n]][1], items[Ultimo(items[primeras[n]][1])][2]>>]

\* main.py 75-79
PeriodosMain ==
    DictLiteral(<<<<PPSD, <<2022, 2026>>>>,
                  <<PAC, <<2018, 2022>>>>,
                  <<PAC, <<2014, 2018>>>>,
                  <<PLN, <<2010, 2014>>>>,
                  <<PLN, <<2006, 2010>>>>>>)

\* dashboard_panel.py 27-31
PeriodosPanel ==
    DictLiteral(<<<<PPSD, <<2022, 2026>>>>,
                  <<PAC_2, <<2018, 2022>>>>,
                  <<PAC, <<2014, 2018>>>>,
                  <<PLN, <<2010, 2014>>>>,
                  <<PLN_2, <<2006, 2010>>>>>>)

\* f'{periodo[0]}-{periodo[1]} ({partido})'
Etiqueta(partido, periodo) ==
    IntToStr(periodo[1]) \o <<"-">> \o IntToStr(periodo[2]) \o <<" ", "(">> \o partido \o <<")">>

\* get_period over the dict periodos
get_period(periodos, year) ==
    IF IsNull(year) THEN NONE
    ELSE LET y == YearOf(year.t)
             dentro == SelectSeq(periodos, LAMBDA it : it[2][1] <= y /\ y <= it[2][2])
         IN IF dentro = <<>> THEN NONE ELSE Str(Etiqueta(dentro[1][1], dentro[1][2]))

\* the dates go from MargenAnnos years before 2006 to as many after 2026
MargenAnnos == 2

\* the first instant and the last tick of every year, and the null date
FechasPeriodo ==
    {NaT} \cup
    UNION {{Fecha(y, 1, 1), Timestamp(Fecha(y + 1, 1, 1).t - 1)} :
              y \in (2006 - MargenAnnos)..(2026 + MargenAnnos)}

InitFunciones ==
    /\ app = "funciones"
    /\ aportaciones_raw = NONE
    /\ contratos = NONE
    /\ contratos_prep = NONE
    /\ donaciones_prep = NONE
    /\ st_error = <<>>
    /\ ventana_meses = 0
    /\ partido_filtro = Todos
    /\ alertas = <<>>
    /\ alertas_data = <<>>
    /\ alertas_agrupadas = <<>>
    /\ cedulas_contratos = {}
    /\ coincidencias = {}
    /\ proveedor_stats = <<>>
    /\ todos_proveedores = <<>>
    /\ concentracion = NONE
    /\ alertas_criticas = <<>>
    /\ archivo = NONE
    /\ lecturas = 0
    /\ temp_existe = FALSE
    /\ llamada = [f |-> "ninguna"]
    /\ resultado = "inicio"

\* the application of f to arg returned ret; nothing else changes
Aplica(f, arg, ret) ==
    /\ app = "funciones"
    /\ llamada' = [f |-> f, arg |-> arg, ret |-> ret]
    /\ UNCHANGED <<app, aportaciones_raw, contratos, contratos_prep, donaciones_prep,
                   st_error, ventana_meses, partido_filtro, alertas, alertas_data,
                   alertas_agrupadas, cedulas_contratos, coincidencias, proveedor_stats,
                   todos_proveedores, concentracion, alertas_criticas, archivo, lecturas,
                   temp_existe, resultado>>

\* main.py 294: aportaciones['FECHA'].apply(get_period), one cell
LlamadaGetPeriodMain ==
    \E year \in FechasPeriodo : Aplica("main.get_period", year, get_period(PeriodosMain, year))

\* dashboard_panel.py 84: self.aportaciones['FECHA'].apply(self.get_period)
LlamadaGetPeriodPanel ==
    \E year \in FechasPeriodo : Aplica("panel.get_period", year, get_period(PeriodosPanel, year))

\* instants around a contribution of 2020-06-10: the same day, the next,
\* and 182 and 183 days later, at every tick of the day
Instantes ==
    {Timestamp(FechaMas(k).t + h) : k \in {0, 1, 182, 183}, h \in 0..(TicksPerDay - 1)}

\* main.py 176-179 and tab_contratos.py 45-49 for one pair of dates: the
\* elapsed days and whether the pair is inside the window
LlamadaDiferenciaDias ==
    \E fecha_contrato \in Instantes, fecha_donacion \in Instantes, ventana \in Ventanas :
       Aplica("diferencia_dias",
              [fecha_contrato |-> fecha_contrato, fecha_donacion |-> fecha_donacion,
               ventana_meses |-> ventana],
              [diferencia_dias |-> DiferenciaDias(fecha_contrato, fecha_donacion),
               alerta |-> DentroDeVentana(DiferenciaDias(fecha_contrato, fecha_donacion),
                                          ventana)])

\* str.split(','): the pieces between the commas
RECURSIVE Split(_)
Split(s) ==
    IF \A i \in DOMAIN s : s[i] # ","
    THEN <<s>>
    ELSE LET c == CHOOSE i \in DOMAIN s : s[i] = "," /\ \A j \in 1..(i - 1) : s[j] # ","
         IN <<SubSeq(s, 1, c - 1)>> \o Split(SubSeq(s, c + 1, Len(s)))

\* str.strip(): without the blanks of both ends
RECURSIVE Strip(_)
Strip(s) ==
    IF s = <<>> THEN s
    ELSE IF s[1] = " " THEN Strip(Tail(s))
    ELSE IF s[Len(s)] = " " THEN Strip(SubSeq(s, 1, Len(s) - 1))
    ELSE s

\* tab_contratos.py 57: ', '.join(sorted(set(x.dropna()))) of the column x
\* of party cells of one group
PartidosDonados(x) ==
    Join(SortedStr({x[i].s : i \in {n \in DOMAIN x : ~IsNull(x[n])}}))

\* tab_contratos.py 144-145: [p.strip() for p in partidos.split(',')]
PartidosDelGrafico(partidos) ==
    LET piezas == Split(partidos) IN [n \in DOMAIN piezas |-> Strip(piezas[n])]

PARTIDO_CON_COMA == <<"P", ",", " ", "L">>
PARTIDO_P == <<"P">>

\* the party cells of the contributions of one group
GruposDePartidos ==
    LET celdas == {Str(PLN), Str(PAC), Str(PARTIDO_P), Str(PARTIDO_CON_COMA), NaN}
    IN {<<c>> : c \in celdas} \cup {<<c, d>> : c \in celdas, d \in celdas}

\* the associated parties of one alert and their split in the chart
LlamadaPartidos ==
    \E x \in GruposDePartidos :
       Aplica("partidos", x,
              [partidos_donados |-> PartidosDonados(x),
               todos_partidos |-> PartidosDelGrafico(PartidosDonados(x))])

NextFunciones ==
    \/ LlamadaGetPeriodMain
    \/ LlamadaGetPeriodPanel
    \/ LlamadaDiferenciaDias
    \/ LlamadaPartidos

SpecFunciones == InitFunciones /\ [][NextFunciones]_vars

(***************************************************************************)
(* The panel (dashboard_panel.py): load_aportaciones and load_contratos of *)
(* DonationsDashboard.  aportaciones_raw is self.aportaciones, contratos   *)
(* is self.contratos.                                                      *)
(***************************************************************************)
\* the most files of a contracts folder
MaxArchivos == 2

\* a file of the folder: whether its name ends in .xlsx, and its sheet
\* 'Informacion de contratos' (NONE: read_excel raises)
ArchivosDeCarpeta ==
    {[xlsx |-> TRUE, hoja |-> ArchivoA], [xlsx |-> TRUE, hoja |-> ArchivoB],
     [xlsx |-> TRUE, hoja |-> NONE], [xlsx |-> FALSE, hoja |-> ArchivoA]}

\* folder_input.value: empty, a path that does not exist, a path that
\* os.listdir cannot list, or a folder with its files in listing order
Carpetas ==
    {[k |-> "vacia"], [k |-> "no_existe"], [k |-> "ilegible"]} \cup
    {[k |-> "carpeta", archivos |-> fs] :
        fs \in UNION {[1..n -> ArchivosDeCarpeta] : n \in 0..MaxArchivos}}

\* lines 63-69 when the first file that fails ends the loop
LeerArchivosAborta(all_files) ==
    IF \E n \in DOMAIN all_files : all_files[n].hoja = NONE
    THEN <<>>
    ELSE [n \in DOMAIN all_files |-> all_files[n].hoja]

\* lines 63-69: the sheets of the files that load, in order; a file that
\* fails is skipped
LeerArchivos(all_files) ==
    LET cargados == SelectSeq(all_files, LAMBDA file : file.hoja # NONE)
    IN [n \in DOMAIN cargados |-> cargados[n].hoja]

\* pd.concat(dataframes, ignore_index=True) of tables of the same columns
Concat(dataframes) ==
    Tabla(dataframes[1].columns, Flatten([n \in DOMAIN dataframes |-> dataframes[n].rows]))

\* load_contratos: the value of self.contratos after the call and what it
\* returned
load_contratos(self_contratos, folder) ==
    IF folder.k = "carpeta"
    THEN LET all_files == SelectSeq(folder.archivos, LAMBDA f : f.xlsx)
             dataframes == LeerArchivos(all_files)
         IN IF dataframes # <<>>
            THEN [contratos |-> Concat(dataframes), ret |-> TRUE]
            ELSE [contratos |-> self_contratos, ret |-> FALSE]
    ELSE [contratos |-> self_contratos, ret |-> FALSE]

\* file_input.value: nothing uploaded, or the bytes of a file with its
\* sheet 'BBDD' (NONE: read_excel raises)
Subidas ==
    {NONE} \cup {[bbdd |-> NONE]} \cup
    {[bbdd |-> Donaciones(<<d>>)] : d \in FilasDonacionesTab}

\* load_aportaciones: self.aportaciones, whether temp_aportaciones.xlsx
\* exists, and the returned value, after the call; escribible is whether
\* open(temp_path, "wb") succeeds
load_aportaciones(self_aportaciones, temp, value, escribible) ==
    IF value = NONE
    THEN [aportaciones |-> self_aportaciones, temp |-> temp, ret |-> FALSE]
    ELSE IF ~escribible
    THEN [aportaciones |-> self_aportaciones, temp |-> temp, ret |-> FALSE]
    ELSE IF value.bbdd = NONE
    THEN [aportaciones |-> self_aportaciones, temp |-> TRUE, ret |-> FALSE]
    ELSE [aportaciones |-> value.bbdd, temp |-> FALSE, ret |-> TRUE]

InitPanel ==
    /\ app = "panel"
    /\ aportaciones_raw = NONE
    /\ contratos = NONE
    /\ contratos_prep = NONE
    /\ donaciones_prep = NONE
    /\ st_error = <<>>
    /\ ventana_meses = 0
    /\ partido_filtro = Todos
    /\ alertas = <<>>
    /\ alertas_data = <<>>
    /\ alertas_agrupadas = <<>>
    /\ cedulas_contratos = {}
    /\ coincidencias = {}
    /\ proveedor_stats = <<>>
    /\ todos_proveedores = <<>>
    /\ concentracion = NONE
    /\ alertas_criticas = <<>>
    /\ archivo = NONE
    /\ lecturas = 0
    /\ temp_existe = FALSE
    /\ llamada = [f |-> "ninguna"]
    /\ resultado = "inicio"

LlamadaLoadContratos ==
    /\ app = "panel"
    /\ \E folder \in Carpetas :
          LET r == load_contratos(contratos, folder)
          IN /\ contratos' = r.contratos
             /\ llamada' = [f |-> "load_contratos", arg |-> folder, ret |-> r.ret]
    /\ UNCHANGED <<app, aportaciones_raw, contratos_prep, donaciones_prep, st_error,
                   ventana_meses, partido_filtro, alertas, alertas_data, alertas_agrupadas,
                   cedulas_contratos, coincidencias, proveedor_stats, todos_proveedores,
                   concentracion, alertas_criticas, archivo, lecturas, temp_existe,
                   resultado>>

LlamadaLoadAportaciones ==
    /\ app = "panel"
    /\ \E value \in Subidas, escribible \in BOOLEAN :
          LET r == load_aportaciones(aportaciones_raw, temp_existe, value, escribible)
          IN /\ aportaciones_raw' = r.aportaciones
             /\ temp_existe' = r.temp
             /\ llamada' = [f |-> "load_aportaciones", arg |-> value, ret |-> r.ret,
                            antes |-> aportaciones_raw]
    /\ UNCHANGED <<app, contratos, contratos_prep, donaciones_prep, st_error,
                   ventana_meses, partido_filtro, alertas, alertas_data, alertas_agrupadas,
                   cedulas_contratos, coincidencias, proveedor_stats, todos_proveedores,
                   concentracion, alertas_criticas, archivo, lecturas, resultado>>

NextPanel ==
    \/ LlamadaLoadContratos
    \/ LlamadaLoadAportaciones

SpecPanel == InitPanel /\ [][NextPanel]_vars

(***************************************************************************)
(* Properties.                                                             *)
(***************************************************************************)
\* a detector was called in the run
DetectorLlamado == ventana_meses # 0

\* the rows of a table, none for None
Filas(t) == IF t = NONE THEN <<>> ELSE t.rows

\* how many positions of s hold x
Veces(s, x) == Cardinality({n \in DOMAIN s : s[n] = x})

\* every element of s occurs in t at least as often as in s
SubBolsa(s, t) == \A n \in DOMAIN s : Veces(s, s[n]) <= Veces(t, s[n])

\* what an alert of main carries of its contribution and its contract
ProyAlerta(a) ==
    <<a.cedula, a.fecha_donacion, a.fecha_contrato, a.partido_donado, a.monto_donacion,
      a.nombre_contribuyente>>

\* what a merged row of the tab carries of its contract and its contribution
ProyFila(m) ==
    <<m.Cedula_Proveedor, m.Fecha_Notificacion, m.Nro_Contrato, m.CEDULA, m.FECHA, m.PARTIDO,
      m.MONTO, m.NOMBRE>>

\* the pairs <<contribution row, contract row>> of the prepared tables of
\* main that share the identity and lie ventana_meses or less apart
ParesMain ==
    LET D == Filas(donaciones_prep)
        K == Filas(contratos_prep)
        ci == ColIdx(contratos_prep, cedula_proveedor)
        fi == ColIdx(contratos_prep, fecha_notificacion)
    IN {p \in (DOMAIN D) \X (DOMAIN K) :
           /\ D[p[1]].CEDULA = K[p[2]][ci]
           /\ D[p[1]].FECHA.k = "ts"
           /\ K[p[2]][fi].k = "ts"
           /\ 100 * DiferenciaDias(K[p[2]][fi], D[p[1]].FECHA) <= 3044 * ventana_meses}

ProyParMain(p) ==
    LET d == donaciones_prep.rows[p[1]]
        c == contratos_prep.rows[p[2]]
    IN <<d.CEDULA, d.FECHA, c[ColIdx(contratos_prep, fecha_notificacion)], d.PARTIDO, d.MONTO,
         d.NOMBRE>>

\* the contributions of the tab with their dates parsed as line 23 does
DonacionesTab ==
    [i \in DOMAIN Filas(donaciones_prep) |->
        [donaciones_prep.rows[i] EXCEPT !.FECHA = ToDatetime(@, FALSE)]]

\* the same pairs of the tables of the tab: a contract row counts with a
\* date and a non-empty identity, a contribution with a date
ParesTab ==
    LET D == DonacionesTab
        K == Filas(contratos_prep)
        ci == ColIdx(contratos_prep, COL_CEDULA_PROVEEDOR)
        fi == ColIdx(contratos_prep, COL_FECHA_NOTIFICACION)
    IN {p \in (DOMAIN D) \X (DOMAIN K) :
           /\ Len(K[p[2]][ci].s) > 0
           /\ D[p[1]].CEDULA = K[p[2]][ci]
           /\ D[p[1]].FECHA.k = "ts"
           /\ K[p[2]][fi].k = "ts"
           /\ 100 * DiferenciaDias(K[p[2]][fi], D[p[1]].FECHA) <= 3044 * ventana_meses}

ProyParTab(p) ==
    LET d == DonacionesTab[p[1]]
        c == contratos_prep.rows[p[2]]
    IN <<c[ColIdx(contratos_prep, COL_CEDULA_PROVEEDOR)],
         c[ColIdx(contratos_prep, COL_FECHA_NOTIFICACION)],
         c[ColIdx(contratos_prep, COL_NRO_CONTRATO)],
         d.CEDULA, d.FECHA, d.PARTIDO, d.MONTO, d.NOMBRE>>

\* C1: join correctness.  After a call of either detector with the window w,
\* the joined pairs are exactly the (contribution row, contract row) pairs of
\* the normalised tables with the same identity and elapsed months <= w, each
\* once; so no pair has an identity that one of the tables lacks.
C1_JoinCorrecto ==
    /\ (app = "main" /\ DetectorLlamado) =>
          \A v \in {ProyParMain(p) : p \in ParesMain}
                      \cup {ProyAlerta(alertas[n]) : n \in DOMAIN alertas} :
             Cardinality({p \in ParesMain : ProyParMain(p) = v})
                = Cardinality({n \in DOMAIN alertas : ProyAlerta(alertas[n]) = v})
    /\ (app = "tabs" /\ DetectorLlamado /\ resultado # "error") =>
          \A v \in {ProyParTab(p) : p \in ParesTab}
                      \cup {ProyFila(alertas_data[n]) : n \in DOMAIN alertas_data} :
             Cardinality({p \in ParesTab : ProyParTab(p) = v})
                = Cardinality({n \in DOMAIN alertas_data : ProyFila(alertas_data[n]) = v})

\* C1 witness: the tab joined two dated contributions of one identity with
\* two dated contracts of it, and kept the two of the four pairs that lie
\* inside the window
C1_Witness ==
    /\ app = "tabs"
    /\ DetectorLlamado
    /\ Len(Filas(donaciones_prep)) = 2
    /\ Len(Filas(contratos_prep)) = 2
    /\ \A i, j \in 1..2 :
          /\ donaciones_prep.rows[i].CEDULA = contratos_prep.rows[j][1]
          /\ donaciones_prep.rows[i].FECHA.k = "ts"
          /\ contratos_prep.rows[j][2].k = "ts"
    /\ Len(alertas_data) = 2

\* C2: window monotonicity.  With the tables fixed, the pairs joined with a
\* window are among the pairs joined with any larger window.
C2_VentanaMonotona ==
    /\ (app = "main" /\ DetectorLlamado /\ contratos_prep # NONE /\ donaciones_prep # NONE) =>
          \A w \in Ventanas :
             LET otra == detectar_alertas_temporales(contratos_prep, donaciones_prep, w,
                            CHOOSE o \in Ordenes(Coincidencias(contratos_prep, donaciones_prep)) :
                                TRUE)
             IN /\ ventana_meses <= w => SubBolsa(alertas, otra)
                /\ w <= ventana_meses => SubBolsa(otra, alertas)
    /\ (app = "tabs" /\ DetectorLlamado /\ resultado # "error" /\ contratos_prep # NONE
           /\ donaciones_prep # NONE) =>
          \A w \in Ventanas :
             LET otra == _detectar_alertas_temporales(contratos_prep, donaciones_prep,
                                                      w).alertas_data
             IN /\ ventana_meses <= w => SubBolsa(alertas_data, otra)
                /\ w <= ventana_meses => SubBolsa(otra, alertas_data)

\* C2 witness: a call of main's detector with window 5 joined nothing, and
\* the window 6 joins a pair of the same tables
C2_Witness ==
    /\ app = "main"
    /\ ventana_meses = 5
    /\ contratos_prep # NONE
    /\ donaciones_prep # NONE
    /\ alertas = <<>>
    /\ detectar_alertas_temporales(contratos_prep, donaciones_prep, 6,
          CHOOSE o \in Ordenes(Coincidencias(contratos_prep, donaciones_prep)) : TRUE) # <<>>

\* the tab's detector returned from its group-by
TabAgrupo == app = "tabs" /\ DetectorLlamado /\ resultado # "error"

RECURSIVE SumaCantidades(_)
SumaCantidades(filas) ==
    IF filas = <<>> THEN 0 ELSE filas[1].cantidad_donaciones + SumaCantidades(Tail(filas))

\* C3: aggregation conservation.  For every identity, the cantidad_donaciones
\* of its alerts add up to the number of its joined pairs inside the window,
\* whatever the contracts table, rows without contract number included.
C3_ConservaPares ==
    TabAgrupo =>
       \A c \in {alertas_data[n].Cedula_Proveedor : n \in DOMAIN alertas_data} :
          SumaCantidades(SelectSeq(alertas_agrupadas, LAMBDA a : a.cedula = c))
             = Cardinality({n \in DOMAIN alertas_data : alertas_data[n].Cedula_Proveedor = c})

\* C4: the cantidad_donaciones of an alert is at most the number of
\* contribution records of its identity, also when several contract rows have
\* the same identity, date and contract number.
C4_CantidadAcotada ==
    TabAgrupo =>
       \A n \in DOMAIN alertas_agrupadas :
          alertas_agrupadas[n].cantidad_donaciones
             <= Cardinality({i \in DOMAIN Filas(donaciones_prep) :
                               donaciones_prep.rows[i].CEDULA = alertas_agrupadas[n].cedula})

\* C5: the alerts hold exactly one alert for each distinct (identity,
\* contract number) among the joined pairs inside the window, also when
\* contract rows of that identity and number have different dates.
C5_UnaAlertaPorContrato ==
    TabAgrupo =>
       \A n \in DOMAIN alertas_data :
          ~IsNull(alertas_data[n].Nro_Contrato) =>
             Cardinality({m \in DOMAIN alertas_agrupadas :
                            /\ alertas_agrupadas[m].cedula = alertas_data[n].Cedula_Proveedor
                            /\ alertas_agrupadas[m].nro_contrato = alertas_data[n].Nro_Contrato})
                = 1

\* the contribution and the contract of the boundary scenario
D1 == Donacion(Str(ID_A), Fecha(2020, 1, 10), Str(PLN), Num(1000), Str(ANA))
K1 == <<Str(ID_A), Fecha(2020, 6, 15), Str(NRO_C1)>>
EscenarioD1K1 ==
    /\ DetectorLlamado
    /\ resultado # "error"
    /\ Filas(donaciones_prep) = <<D1>>
    /\ Filas(contratos_prep) = <<K1>>

\* the pairs of rows with the same identity and two dates, of main and of
\* the tab, and the whole days between the two dates of a pair
ConFechaMain ==
    LET D == Filas(donaciones_prep)
        K == Filas(contratos_prep)
    IN {p \in (DOMAIN D) \X (DOMAIN K) :
           /\ D[p[1]].CEDULA = K[p[2]][ColIdx(contratos_prep, cedula_proveedor)]
           /\ D[p[1]].FECHA.k = "ts"
           /\ K[p[2]][ColIdx(contratos_prep, fecha_notificacion)].k = "ts"}
ConFechaTab ==
    LET D == DonacionesTab
        K == Filas(contratos_prep)
    IN {p \in (DOMAIN D) \X (DOMAIN K) :
           /\ Len(K[p[2]][ColIdx(contratos_prep, COL_CEDULA_PROVEEDOR)].s) > 0
           /\ D[p[1]].CEDULA = K[p[2]][ColIdx(contratos_prep, COL_CEDULA_PROVEEDOR)]
           /\ D[p[1]].FECHA.k = "ts"
           /\ K[p[2]][ColIdx(contratos_prep, COL_FECHA_NOTIFICACION)].k = "ts"}
DiasMain(p) ==
    DiferenciaDias(contratos_prep.rows[p[2]][ColIdx(contratos_prep, fecha_notificacion)],
                   donaciones_prep.rows[p[1]].FECHA)
DiasTab(p) ==
    DiferenciaDias(contratos_prep.rows[p[2]][ColIdx(contratos_prep, COL_FECHA_NOTIFICACION)],
                   DonacionesTab[p[1]].FECHA)

\* C6: window boundary.  A pair d days apart is kept with the window w iff
\* 100 * d <= 3044 * w.  The contribution of 2020-01-10 and the contract of
\* 2020-06-15 are 157 days apart: one alert with the window 6, none with 5.
C6_LimiteVentana ==
    /\ (app = "main" /\ DetectorLlamado) =>
          \A p \in ConFechaMain :
             (\E n \in DOMAIN alertas : ProyAlerta(alertas[n]) = ProyParMain(p))
                <=> 100 * DiasMain(p) <= 3044 * ventana_meses
    /\ TabAgrupo =>
          \A p \in ConFechaTab :
             (\E n \in DOMAIN alertas_data : ProyFila(alertas_data[n]) = ProyParTab(p))
                <=> 100 * DiasTab(p) <= 3044 * ventana_meses
    /\ (app = "main" /\ EscenarioD1K1) =>
          /\ ventana_meses = 6 => Len(alertas) = 1 /\ alertas[1].diferencia_dias = 157
          /\ ventana_meses = 5 => alertas = <<>>
    /\ (app = "tabs" /\ EscenarioD1K1) =>
          /\ ventana_meses = 6 =>
                /\ Len(alertas_data) = 1
                /\ alertas_data[1].diferencia_dias = 157
                /\ Len(alertas_agrupadas) = 1
                /\ alertas_agrupadas[1].cantidad_donaciones = 1
                /\ alertas_agrupadas[1].monto_total_donaciones = 1000
          /\ ventana_meses = 5 => alertas_data = <<>> /\ alertas_agrupadas = <<>>

\* C6 witness: the scenario with the window 5 in the tab, which drops the
\* pair of 157 days
C6_Witness ==
    /\ app = "tabs"
    /\ EscenarioD1K1
    /\ ventana_meses = 5
    /\ ConFechaTab # {}
    /\ alertas_agrupadas = <<>>

\* an identity of 7, 8 or 9 characters
LongitudValida(c) == c.k = "str" /\ Len(c.s) \in {7, 8, 9}

\* C7: identity-length validity.  The contributions that reach a join have
\* identities of 7, 8 or 9 digits, and so has every alert of either
\* detector, also when a contract of the dropped identity exists.
C7_LongitudCedula ==
    /\ DetectorLlamado =>
          \A i \in DOMAIN Filas(donaciones_prep) :
             LongitudValida(donaciones_prep.rows[i].CEDULA)
    /\ \A n \in DOMAIN alertas : LongitudValida(alertas[n].cedula)
    /\ \A n \in DOMAIN alertas_data : LongitudValida(alertas_data[n].Cedula_Proveedor)
    /\ \A n \in DOMAIN alertas_agrupadas : LongitudValida(alertas_agrupadas[n].cedula)

\* C7 witness: main read a contribution and a contract of the 5-digit
\* identity, dropped the contribution and found alerts of another identity
C7_Witness ==
    /\ app = "main"
    /\ resultado = "alertas"
    /\ \E i \in DOMAIN aportaciones_raw.rows : aportaciones_raw.rows[i].CEDULA = Str(ID_CORTA)
    /\ \E j \in DOMAIN contratos_prep.rows : contratos_prep.rows[j][1] = Str(ID_CORTA)
    /\ Len(donaciones_prep.rows) < Len(aportaciones_raw.rows)
    /\ alertas # <<>>

\* the detector got a table that is None or has no rows, or two tables
\* without a common identity
SinCoincidencia(col) ==
    \/ Filas(contratos_prep) = <<>>
    \/ Filas(donaciones_prep) = <<>>
    \/ {contratos_prep.rows[j][ColIdx(contratos_prep, col)] : j \in DOMAIN contratos_prep.rows}
          \cap {donaciones_prep.rows[i].CEDULA : i \in DOMAIN donaciones_prep.rows} = {}

C9_SinAlertasSinError ==
    (app = "main" /\ DetectorLlamado /\ resultado # "llamada" /\ alertas = <<>>) =>
       resultado = "sin_alertas"

\* no column name holds one of the words, whatever the case
SinColumna(columns, palabras) ==
    \A i \in DOMAIN columns, w \in palabras : ~Contains(Lower(columns[i]), w)

\* preparar_contratos gets a table with rows that lacks a date column or an
\* identity column
FaltaColumna ==
    /\ app = "main"
    /\ contratos # NONE
    /\ Len(Filas(contratos)) > 0
    /\ \/ SinColumna(contratos.columns, PalabrasFecha)
       \/ SinColumna(contratos.columns, PalabrasCedula)

\* C10: preparar_contratos, given a table with rows and without a column
\* whose name holds 'fecha' or 'notif', or without one whose name holds
\* 'cédula', 'cedula' or 'proveedor', reports the column it misses, returns
\* None, raises nothing and leaves the table it was given as it was.
C10_ColumnaFaltante ==
    [][(FaltaColumna /\ resultado = "inicio" /\ resultado' # "bienvenida") =>
          /\ contratos_prep' = NONE
          /\ resultado' # "error"
          /\ contratos' = contratos
          /\ Len(st_error') >= 1
          /\ st_error'[1] = IF SinColumna(contratos.columns, PalabrasFecha)
                            THEN ERR_FECHA ELSE ERR_CEDULA]_vars

\* C10 witness: a run of main that ended because the contracts have a date
\* column and no identity column
C10_Witness ==
    /\ FaltaColumna
    /\ ~SinColumna(contratos.columns, PalabrasFecha)
    /\ resultado = "sin_preparar"
    /\ contratos_prep = NONE
    /\ st_error = <<ERR_CEDULA, ERR_PREPARAR>>

\* C11: for a contracts table with the date and the identity columns and
\* without a contract-number column, the detection completes and yields the
\* alerts, one for every identity and contract date of a pair inside the
\* window.
C11_SinColumnaNro ==
    (/\ app = "tabs"
     /\ DetectorLlamado
     /\ contratos_prep # NONE
     /\ donaciones_prep # NONE
     /\ HasCol(contratos_prep, COL_CEDULA_PROVEEDOR)
     /\ HasCol(contratos_prep, COL_FECHA_NOTIFICACION)
     /\ ~HasCol(contratos_prep, COL_NRO_CONTRATO)) =>
       /\ resultado # "error"
       /\ \A p \in ParesTab :
             \E n \in DOMAIN alertas_agrupadas :
                /\ alertas_agrupadas[n].cedula = contratos_prep.rows[p[2]][1]
                /\ alertas_agrupadas[n].fecha_contrato = contratos_prep.rows[p[2]][2]

\* C12: idempotence.  A second call of the merge-based detector with the
\* same table objects and the same window, the contracts being as the first
\* call left them, returns the alerts the first call returned.
C12_Idempotente ==
    [][(app = "tabs" /\ resultado = "llamada" /\ resultado' # "llamada") =>
          /\ resultado' = "segunda"
          /\ alertas_agrupadas' = alertas_agrupadas]_vars

\* C12 witness: a second call returned alerts from a contracts table that the
\* first call had changed
C12_Witness ==
    /\ resultado = "segunda"
    /\ contratos_prep # contratos
    /\ Len(alertas_agrupadas) = 2

\* C13: after _detectar_alertas_temporales returns, the contracts table and
\* the contributions table of the caller have the rows and the cell values
\* they had before the call.
C13_TablasSinCambio ==
    (app = "tabs" /\ DetectorLlamado /\ resultado # "error") =>
       /\ contratos_prep = contratos
       /\ Filas(donaciones_prep) = Filas(AportacionesDelLlamador(aportaciones_raw))


\* the providers of a contracts table: the identities of its rows with a
\* contract number
ProveedoresDe(t) ==
    {r[ColIdx(t, COL_CEDULA_PROVEEDOR)] :
        r \in {q \in Range(t.rows) : /\ ~IsNull(q[ColIdx(t, COL_CEDULA_PROVEEDOR)])
                                     /\ ~IsNull(q[ColIdx(t, COL_NRO_CONTRATO)])}}

\* the distinct contract numbers of a provider
ContratosDe(t, p) ==
    {r[ColIdx(t, COL_NRO_CONTRATO)] :
        r \in {q \in Range(t.rows) : /\ q[ColIdx(t, COL_CEDULA_PROVEEDOR)] = p
                                     /\ ~IsNull(q[ColIdx(t, COL_NRO_CONTRATO)])}}

RECURSIVE SumaContratos(_, _)
SumaContratos(t, P) ==
    IF P = {} THEN 0
    ELSE LET p == CHOOSE q \in P : TRUE
         IN Cardinality(ContratosDe(t, p)) + SumaContratos(t, P \ {p})

\* the contracts of the providers ranked a to b
RECURSIVE Banda(_, _, _)
Banda(todos, a, b) ==
    IF a > b \/ a > Len(todos) THEN 0
    ELSE todos[a].Contratos_Unicos + Banda(todos, a + 1, b)

TopCalculado == concentracion # NONE

\* C14: the providers are ranked by their distinct contracts, each provider
\* once; the three bands are the contracts of the ranks 1-10, 11-50 and 51
\* on, none is negative, and they add up to the total of the distinct
\* contracts of all the providers.
C14_BandasParticion ==
    TopCalculado =>
       /\ Len(todos_proveedores) = Cardinality(ProveedoresDe(contratos_prep))
       /\ \A p \in ProveedoresDe(contratos_prep) :
             \E n \in DOMAIN todos_proveedores :
                /\ todos_proveedores[n].Proveedor = p
                /\ todos_proveedores[n].Contratos_Unicos =
                      Cardinality(ContratosDe(contratos_prep, p))
       /\ \A n \in DOMAIN todos_proveedores : \A k \in DOMAIN todos_proveedores :
             n < k => todos_proveedores[n].Contratos_Unicos
                         >= todos_proveedores[k].Contratos_Unicos
       /\ concentracion.total_contratos =
             SumaContratos(contratos_prep, ProveedoresDe(contratos_prep))
       /\ concentracion.top_10_contratos = Banda(todos_proveedores, 1, 10)
       /\ concentracion.top_11_50_contratos = Banda(todos_proveedores, 11, 50)
       /\ concentracion.resto_contratos =
             Banda(todos_proveedores, 51, Len(todos_proveedores))
       /\ concentracion.top_10_contratos >= 0
       /\ concentracion.top_11_50_contratos >= 0
       /\ concentracion.resto_contratos >= 0
       /\ concentracion.top_10_contratos + concentracion.top_11_50_contratos
             + concentracion.resto_contratos = concentracion.total_contratos

\* more than 50 providers, with ties across both band limits
C14_Witness ==
    /\ TopCalculado
    /\ Len(todos_proveedores) > 50
    /\ concentracion.resto_contratos > 0
    /\ todos_proveedores[10].Contratos_Unicos = todos_proveedores[11].Contratos_Unicos
    /\ todos_proveedores[50].Contratos_Unicos = todos_proveedores[51].Contratos_Unicos
    /\ todos_proveedores[1].Contratos_Unicos > todos_proveedores[51].Contratos_Unicos

\* fewer than 10 providers, and between 11 and 50
C14_Pocos ==
    TopCalculado /\ Len(todos_proveedores) \in 1..9 /\ concentracion.top_11_50_contratos = 0

C14_Medios ==
    TopCalculado /\ Len(todos_proveedores) \in 11..50
       /\ concentracion.top_11_50_contratos > 0 /\ concentracion.resto_contratos = 0


\* the rows of a provider that carry a contract number
RegistrosDe(t, p) ==
    {i \in DOMAIN t.rows : /\ t.rows[i][ColIdx(t, COL_CEDULA_PROVEEDOR)] = p
                           /\ ~IsNull(t.rows[i][ColIdx(t, COL_NRO_CONTRATO)])}

\* C15: for every provider of the duplication statistics, Total_Registros
\* is the number of its rows and is at least 1, Registros_Duplicados is
\* Total_Registros - Contratos_Unicos and is not negative, and
\* Pct_Duplicados is Registros_Duplicados / Total_Registros * 100, a division
\* by a number that is not zero, with 0 <= Pct_Duplicados < 100.
C15_Duplicados ==
    TopCalculado =>
       \A n \in DOMAIN proveedor_stats :
          LET e == proveedor_stats[n]
          IN /\ e.Total_Registros = Cardinality(RegistrosDe(contratos_prep, e.Proveedor))
             /\ e.Contratos_Unicos = Cardinality(ContratosDe(contratos_prep, e.Proveedor))
             /\ e.Total_Registros >= 1
             /\ e.Registros_Duplicados = e.Total_Registros - e.Contratos_Unicos
             /\ e.Registros_Duplicados >= 0
             /\ e.Pct_Duplicados.den = e.Total_Registros
             /\ e.Pct_Duplicados.den # 0
             /\ e.Pct_Duplicados.num = e.Registros_Duplicados * 100
             /\ 0 <= e.Pct_Duplicados.num
             /\ e.Pct_Duplicados.num < 100 * e.Pct_Duplicados.den

\* a provider with repeated rows next to one without
C15_Witness ==
    /\ TopCalculado
    /\ \E n \in DOMAIN proveedor_stats :
          /\ proveedor_stats[n].Registros_Duplicados >= 1
          /\ proveedor_stats[n].Contratos_Unicos >= 2
    /\ \E n \in DOMAIN proveedor_stats : proveedor_stats[n].Registros_Duplicados = 0


\* the contract numbers of an identity that a contribution of the identity
\* precedes by ventana_meses or less
ContratosEnlazados(cedula) ==
    {contratos_prep.rows[p[2]][ColIdx(contratos_prep, COL_NRO_CONTRATO)] :
        p \in {q \in ParesTab :
                 /\ contratos_prep.rows[q[2]][ColIdx(contratos_prep, COL_CEDULA_PROVEEDOR)]
                       = cedula
                 /\ ~IsNull(contratos_prep.rows[q[2]][ColIdx(contratos_prep, COL_NRO_CONTRATO)])}}

CedulasConAlerta == {alertas_agrupadas[n].cedula : n \in DOMAIN alertas_agrupadas}

Puntaje(cedula) == SuspicionScore(alertas_agrupadas, contratos_prep, cedula)

\* C16: for every identity with an alert the suspicion score lies between 0
\* and 100, is 0 when the identity has no contract, and is exactly 100 when
\* every distinct contract of the identity is linked to a contribution
\* inside the window.
C16_PuntajeAcotado ==
    TabAgrupo =>
       \A c \in CedulasConAlerta :
          /\ 0 <= Puntaje(c).num
          /\ Puntaje(c).num <= 100 * Puntaje(c).den
          /\ Puntaje(c).den > 0
          /\ ContratosTotales(contratos_prep, c) = {} => Puntaje(c).num = 0
          /\ (/\ ContratosTotales(contratos_prep, c) # {}
              /\ ContratosTotales(contratos_prep, c) \subseteq ContratosEnlazados(c))
                => Puntaje(c).num = 100 * Puntaje(c).den

\* an identity with two contracts of which the second contribution alone
\* links the second, and an identity with one of its two contracts linked
C16_Witness ==
    /\ TabAgrupo
    /\ \E c \in CedulasConAlerta :
          /\ Cardinality(ContratosTotales(contratos_prep, c)) = 2
          /\ ContratosEnlazados(c) = ContratosTotales(contratos_prep, c)
          /\ Puntaje(c).num = 100 * Puntaje(c).den
          /\ Len(alertas_data) = 3

C16_Mitad ==
    /\ TabAgrupo
    /\ \E c \in CedulasConAlerta : 2 * Puntaje(c).num = 100 * Puntaje(c).den


\* the dates a raw cell can be read as: itself for a datetime, the two
\* readings of a text NN/NN/NNNN, none for any other value
Lecturas(c) ==
    IF c.k = "ts" THEN {c}
    ELSE IF c.k = "str" /\ EsFechaTexto(c.s)
    THEN {ParseFechaTexto(c.s, TRUE), ParseFechaTexto(c.s, FALSE)} \ {NaT}
    ELSE {}

\* a raw contribution with a readable date and the amount monto, and a raw
\* contract with a readable date, read as fecha
DonacionLegible(fecha, monto) ==
    \E i \in DOMAIN Filas(aportaciones_raw) :
       /\ fecha \in Lecturas(aportaciones_raw.rows[i].FECHA)
       /\ aportaciones_raw.rows[i].MONTO = monto

ContratoLegible(fecha) ==
    \E i \in DOMAIN Filas(contratos) : \E x \in DOMAIN contratos.rows[i] :
       fecha \in Lecturas(contratos.rows[i][x])

\* C17: every alert of main, and every joined pair and aggregated alert of
\* the tab, carries two dates, and they are the dates of a contribution and
\* of a contract of the files whose dates can be read.
C17_SinFechaNula ==
    /\ (app = "main" /\ DetectorLlamado) =>
          \A n \in DOMAIN alertas :
             /\ alertas[n].fecha_donacion.k = "ts"
             /\ alertas[n].fecha_contrato.k = "ts"
             /\ DonacionLegible(alertas[n].fecha_donacion, alertas[n].monto_donacion)
             /\ ContratoLegible(alertas[n].fecha_contrato)
    /\ TabAgrupo =>
          /\ \A n \in DOMAIN alertas_data :
                /\ alertas_data[n].FECHA.k = "ts"
                /\ alertas_data[n].Fecha_Notificacion.k = "ts"
                /\ DonacionLegible(alertas_data[n].FECHA, alertas_data[n].MONTO)
                /\ ContratoLegible(alertas_data[n].Fecha_Notificacion)
          /\ \A n \in DOMAIN alertas_agrupadas :
                /\ alertas_agrupadas[n].fecha_contrato.k = "ts"
                /\ ContratoLegible(alertas_agrupadas[n].fecha_contrato)

\* the tab raised an alert next to a contribution and a contract of the
\* same identity whose dates cannot be read
C17_Witness ==
    /\ TabAgrupo
    /\ Len(alertas_agrupadas) = 1
    /\ \E i \in DOMAIN Filas(aportaciones_raw) :
          /\ Lecturas(aportaciones_raw.rows[i].FECHA) = {}
          /\ NormalizarCedula(aportaciones_raw.rows[i].CEDULA) = alertas_agrupadas[1].cedula
    /\ \E i \in DOMAIN Filas(contratos) :
          /\ Lecturas(contratos.rows[i][2]) = {}
          /\ NormalizarCedula(contratos.rows[i][1]) = alertas_agrupadas[1].cedula


\* the column of identities of the prepared contracts: main renames it
ColumnaCedula == IF app = "main" THEN cedula_proveedor ELSE COL_CEDULA_PROVEEDOR

\* C18: the prepared contracts hold no row whose identity is the empty
\* text, and the empty text is no member of the set of contract identities
\* whose size is shown as the number of unique providers.
C18_SinCedulaVacia ==
    /\ (contratos_prep # NONE /\ resultado \notin {"inicio", "error"}
           /\ HasCol(contratos_prep, ColumnaCedula)) =>
          \A i \in DOMAIN contratos_prep.rows :
             contratos_prep.rows[i][ColIdx(contratos_prep, ColumnaCedula)] # Str(<<>>)
    /\ Str(<<>>) \notin cedulas_contratos


\* a text NN/NN/NNNN whose two first fields are both months of the year
Ambigua(c) ==
    /\ c.k = "str"
    /\ EsFechaTexto(c.s)
    /\ Numero(c.s, 1, 2) \in 1..12
    /\ Numero(c.s, 4, 5) \in 1..12

\* the date of such a text read with the day first
DiaPrimero(c) == Fecha(Numero(c.s, 7, 10), Numero(c.s, 4, 5), Numero(c.s, 1, 2))

\* the dates of the contracts as the preparation left them
FechasContratos ==
    Unique(contratos_prep, IF app = "main" THEN fecha_notificacion ELSE COL_FECHA_NOTIFICACION)

\* C19: wherever a contract date or a contribution date is parsed, a text
\* whose day and month fields are both 12 or less is read with the day
\* first: the prepared contracts hold the day-first reading of every such
\* notification date, and a prepared contribution of main or a joined
\* contribution of the tab holds the day-first reading of its date.
C19_DiaPrimero ==
    /\ (/\ contratos_prep # NONE
        /\ donaciones_prep # NONE
        /\ DetectorLlamado
        /\ resultado # "error") =>
          \A i \in DOMAIN contratos.rows : \A x \in DOMAIN contratos.rows[i] :
             Ambigua(contratos.rows[i][x]) => DiaPrimero(contratos.rows[i][x]) \in FechasContratos
    /\ (app = "main" /\ donaciones_prep # NONE) =>
          \A j \in DOMAIN donaciones_prep.rows : \A i \in DOMAIN aportaciones_raw.rows :
             (/\ Ambigua(aportaciones_raw.rows[i].FECHA)
              /\ aportaciones_raw.rows[i].MONTO = donaciones_prep.rows[j].MONTO)
                => donaciones_prep.rows[j].FECHA = DiaPrimero(aportaciones_raw.rows[i].FECHA)
    /\ TabAgrupo =>
          \A n \in DOMAIN alertas_data : \A i \in DOMAIN Filas(aportaciones_raw) :
             (/\ Ambigua(aportaciones_raw.rows[i].FECHA)
              /\ aportaciones_raw.rows[i].MONTO = alertas_data[n].MONTO)
                => alertas_data[n].FECHA = DiaPrimero(aportaciones_raw.rows[i].FECHA)


\* the run reached the lines that compute the identity sets
ConjuntosCalculados ==
    /\ contratos_prep # NONE
    /\ donaciones_prep # NONE
    /\ \/ app = "main" /\ resultado \notin {"inicio", "llamada", "error", "sin_preparar"}
       \/ app = "tabs" /\ resultado \in {"sin_alertas", "alertas"}

\* the normalised identities of the contracts and of the contributions
CedulasNormalizadasContratos ==
    {NormalizarCedula(c) : c \in Unique(contratos_prep, ColumnaCedula)}

CedulasNormalizadasDonaciones ==
    {NormalizarCedula(donaciones_prep.rows[i].CEDULA) : i \in DOMAIN donaciones_prep.rows}

CedulasAlertadas ==
    {alertas[n].cedula : n \in DOMAIN alertas} \cup CedulasConAlerta

\* C20: coincidencias is the intersection of the normalised contract
\* identities and the normalised contribution identities, so it holds the
\* identity of every alert.
C20_Coincidencias ==
    ConjuntosCalculados =>
       /\ coincidencias = CedulasNormalizadasContratos \cap CedulasNormalizadasDonaciones
       /\ CedulasAlertadas \subseteq coincidencias


\* the normalised tables of the tab as the nested loops of main read them:
\* the contracts under the column names of main, the contributions with
\* their dates parsed
ContratosParaMain ==
    IF contratos_prep = NONE THEN NONE
    ELSE Tabla(<<cedula_proveedor, fecha_notificacion, COL_NRO_CONTRATO>>, contratos_prep.rows)

DonacionesParaMain ==
    IF donaciones_prep = NONE THEN NONE ELSE Donaciones(DonacionesTab)

OrdenesParaMain ==
    IF ContratosParaMain = NONE \/ DonacionesParaMain = NONE THEN {<<>>}
    ELSE Ordenes(Coincidencias(ContratosParaMain, DonacionesParaMain))

\* <<identity, contribution date, contract date>> of a merged row and of an
\* alert of the nested loops
TernaFila(m) == <<m.Cedula_Proveedor, m.FECHA, m.Fecha_Notificacion>>

TernaAlerta(a) == <<a.cedula, a.fecha_donacion, a.fecha_contrato>>

\* C21: on the same normalised tables and window, the rows the merge keeps
\* inside the window and the alerts of the nested loops, in whatever order
\* the shared identities are visited, hold the same
\* <<identity, contribution date, contract date>> the same number of times.
C21_MismosPares ==
    TabAgrupo =>
       \A orden \in OrdenesParaMain :
          LET bucle == detectar_alertas_temporales(ContratosParaMain, DonacionesParaMain,
                                                   ventana_meses, orden)
          IN \A v \in {TernaFila(alertas_data[n]) : n \in DOMAIN alertas_data}
                         \cup {TernaAlerta(bucle[n]) : n \in DOMAIN bucle} :
                Cardinality({n \in DOMAIN alertas_data : TernaFila(alertas_data[n]) = v})
                   = Cardinality({n \in DOMAIN bucle : TernaAlerta(bucle[n]) = v})

\* two shared identities, each with a pair inside the window
C21_Witness ==
    /\ TabAgrupo
    /\ Cardinality(OrdenesParaMain) = 2
    /\ Cardinality({alertas_data[n].Cedula_Proveedor : n \in DOMAIN alertas_data}) = 2


\* the most critical alerts of a run on the same tables, window and party
\* that visits the shared identities in the order orden
CriticasCon(orden) ==
    AlertasCriticas(detectar_alertas_temporales(contratos_prep, donaciones_prep,
                                                ventana_meses, orden),
                    partido_filtro, resultado)

\* C22: the alerts shown as the 20 most critical are the same set in every
\* run on the same inputs, in whatever order the shared identities are
\* visited.
C22_TopEstable ==
    (app = "main" /\ resultado = "alertas") =>
       \A orden \in Ordenes(coincidencias) :
          Range(CriticasCon(orden)) = Range(alertas_criticas)


\* the name of a column holds one of the words, whatever the case
Nombra(columna, palabras) == \E w \in palabras : Contains(Lower(columna), w)

\* the positions of the columns of the prepared contracts that bear a name
PosicionesDe(nombre) ==
    {i \in DOMAIN contratos_prep.columns : contratos_prep.columns[i] = nombre}

\* C23: a table returned by preparar_contratos has one column
\* 'fecha_notificacion' and one column 'cedula_proveedor', at two positions,
\* and the columns of the file at those positions are a date column and an
\* identity column by their names.
C23_DosColumnas ==
    (app = "main" /\ contratos_prep # NONE) =>
       /\ Cardinality(PosicionesDe(fecha_notificacion)) = 1
       /\ Cardinality(PosicionesDe(cedula_proveedor)) = 1
       /\ PosicionesDe(fecha_notificacion) \cap PosicionesDe(cedula_proveedor) = {}
       /\ \A i \in PosicionesDe(fecha_notificacion) :
             Nombra(contratos.columns[i], PalabrasFecha)
       /\ \A i \in PosicionesDe(cedula_proveedor) :
             Nombra(contratos.columns[i], PalabrasCedula)

\* a file whose first column is named with a date word and an identity
\* word gave a table
C23_Witness ==
    /\ app = "main"
    /\ contratos_prep # NONE
    /\ contratos.columns[1] = FECHA_PROVEEDOR
    /\ Len(contratos_prep.rows) = 1

\* the file whose only date column is also its identity column gave none
C23_SinTabla ==
    /\ app = "main"
    /\ resultado = "error"
    /\ contratos # NONE
    /\ contratos.columns[1] = FECHA_PROVEEDOR
    /\ contratos_prep = NONE


\* a step that is a run of mostrar_tab_contratos
PasoDeTab == app = "tabs" /\ resultado = "inicio" /\ resultado' # "inicio"

\* C28: in a session, the default contracts file is opened only by a run
\* that finds no entry 'contratos'; a run that finds an entry neither opens
\* the file nor changes the entry; a run that finds none opens the file and
\* stores what it read, and nothing when the read fails, so that the next
\* run opens it again.
C28_LecturaSinEntrada ==
    [][/\ lecturas' # lecturas => (PasoDeTab /\ contratos = NONE)
       /\ (PasoDeTab /\ contratos # NONE) =>
             (contratos' = contratos /\ lecturas' = lecturas)
       /\ (PasoDeTab /\ contratos = NONE) =>
             (contratos' = archivo /\ lecturas' = lecturas + 1)]_vars

\* the file was opened again after a read that failed
C28_Witness ==
    /\ app = "tabs"
    /\ lecturas = 2
    /\ archivo = NONE
    /\ contratos = NONE
    /\ resultado = "sin_contratos"

\* an entry stored by a read was used by a later run
C28_EntradaUsada ==
    /\ app = "tabs"
    /\ lecturas = 1
    /\ contratos = ArchivoA
    /\ archivo = ArchivoA
    /\ resultado = "inicio"


\* C30: when mostrar_tab_contratos reaches the concentration analysis, which
\* it does only after the detector returned at least one alert, the total
\* of distinct contracts over all providers is at least 1, so the three
\* quotients by total_contratos (lines 379-381) are defined.
C30_TotalPositivo ==
    (app = "tabs" /\ resultado = "alertas") =>
       /\ Len(alertas_agrupadas) > 0
       /\ concentracion.total_contratos >= 1
       /\ concentracion.total_contratos = SumaUnicos(todos_proveedores)

\* the analysis ran on a table where a row without contract number was
\* dropped (line 230) and one contract was left
C30_Witness ==
    /\ app = "tabs"
    /\ resultado = "alertas"
    /\ concentracion.total_contratos = 1
    /\ Len(ContratosConNro(contratos_prep)) < Len(contratos_prep.rows)


\* the year of a date lies in 2006..2026
EnPeriodos(year) == ~IsNull(year) /\ YearOf(year.t) \in 2006..2026

\* ret is a label 'a-b (party)' of a declared period that contains the year
EtiquetaQueCubre(ret, year) ==
    \E it \in Range(PeriodosPanel) \cup
              {<<PAC, <<2018, 2022>>>>, <<PAC, <<2014, 2018>>>>,
               <<PLN, <<2010, 2014>>>>, <<PLN, <<2006, 2010>>>>} :
       /\ ret = Str(Etiqueta(it[1], it[2]))
       /\ it[2][1] <= YearOf(year.t)
       /\ YearOf(year.t) <= it[2][2]

\* C24: for a date of a year in 2006..2026 get_period returns a label
\* 'a-b (party)' with a <= year <= b, in main.py and in the panel; for a
\* null date or another year it returns None.
C24_PeriodoCubre ==
    llamada.f \in {"main.get_period", "panel.get_period"} =>
       IF EnPeriodos(llamada.arg)
       THEN llamada.ret # NONE /\ EtiquetaQueCubre(llamada.ret, llamada.arg)
       ELSE llamada.ret = NONE

\* the same of the panel's get_period alone
C24_PeriodoCubrePanel ==
    llamada.f = "panel.get_period" =>
       IF EnPeriodos(llamada.arg)
       THEN llamada.ret # NONE /\ EtiquetaQueCubre(llamada.ret, llamada.arg)
       ELSE llamada.ret = NONE


\* C25: the elapsed days of (contract = a, contribution = b) equal those of
\* (contract = b, contribution = a) for any two timestamps, times of day
\* included, and so does whether the pair is inside the window.
C25_Simetrica ==
    llamada.f = "diferencia_dias" =>
       /\ llamada.ret.diferencia_dias =
             DiferenciaDias(llamada.arg.fecha_donacion, llamada.arg.fecha_contrato)
       /\ llamada.ret.alerta =
             DentroDeVentana(DiferenciaDias(llamada.arg.fecha_donacion,
                                            llamada.arg.fecha_contrato),
                             llamada.arg.ventana_meses)

\* the same for timestamps at midnight
C25_SimetricaAMedianoche ==
    (/\ llamada.f = "diferencia_dias"
     /\ llamada.arg.fecha_contrato.t % TicksPerDay = 0
     /\ llamada.arg.fecha_donacion.t % TicksPerDay = 0) =>
       llamada.ret.diferencia_dias =
          DiferenciaDias(llamada.arg.fecha_donacion, llamada.arg.fecha_contrato)

\* C26: the pieces the chart gets from partidos_donados by splitting on ','
\* and trimming are exactly the non-null party names of the group, sorted
\* and without duplicates, whatever the names (a comma inside included).
C26_IdaYVuelta ==
    llamada.f = "partidos" =>
       llamada.ret.todos_partidos =
          SortedStr({llamada.arg[i].s :
                        i \in {n \in DOMAIN llamada.arg : ~IsNull(llamada.arg[n])}})

\* the same for names without comma, of groups with a non-null party
C26_IdaYVueltaSinComa ==
    (/\ llamada.f = "partidos"
     /\ \E n \in DOMAIN llamada.arg : ~IsNull(llamada.arg[n])
     /\ \A n \in DOMAIN llamada.arg : llamada.arg[n] # Str(PARTIDO_CON_COMA)) =>
       llamada.ret.todos_partidos =
          SortedStr({llamada.arg[i].s :
                        i \in {n \in DOMAIN llamada.arg : ~IsNull(llamada.arg[n])}})


\* the sheets of the .xlsx files of a folder that load, in listing order
HojasCargadas(folder) ==
    IF folder.k # "carpeta" THEN <<>>
    ELSE LET buenos == SelectSeq(folder.archivos,
                                 LAMBDA f : f.xlsx /\ f.hoja # NONE)
         IN [n \in DOMAIN buenos |-> buenos[n].hoja]

\* C27: every call of load_contratos either replaces self.contratos by the
\* rows of every file that loaded, one after another, and returns True, or
\* leaves self.contratos as it was and returns False (folder missing, listing
\* failed, no file loaded); a file that fails is skipped and the others load.
C27_TodoONada ==
    [][llamada'.f = "load_contratos" =>
          LET hojas == HojasCargadas(llamada'.arg)
          IN IF hojas # <<>>
             THEN /\ llamada'.ret = TRUE
                  /\ contratos'.columns = ColumnasContratos
                  /\ contratos'.rows = Flatten([n \in DOMAIN hojas |-> hojas[n].rows])
             ELSE /\ llamada'.ret = FALSE
                  /\ contratos' = contratos]_vars

\* a call skipped a file that failed and loaded the one after it
C27_Witness ==
    /\ llamada.f = "load_contratos"
    /\ llamada.arg.k = "carpeta"
    /\ Len(llamada.arg.archivos) = 2
    /\ llamada.arg.archivos[1] = [xlsx |-> TRUE, hoja |-> NONE]
    /\ llamada.ret = TRUE
    /\ contratos = ArchivoA

\* a call returned False and the table of an earlier call is still there
C27_SinCambio ==
    /\ llamada.f = "load_contratos"
    /\ llamada.ret = FALSE
    /\ contratos # NONE
    /\ Len(contratos.rows) = 2

\* C29: after load_aportaciones returns, True or False, the file
\* temp_aportaciones.xlsx does not exist; and when it returned False,
\* self.aportaciones is what it was before the call.
C29_TemporalBorrado ==
    llamada.f = "load_aportaciones" =>
       /\ ~temp_existe
       /\ llamada.ret = FALSE => aportaciones_raw = llamada.antes

\* the second half alone
C29_FalseSinCambio ==
    (llamada.f = "load_aportaciones" /\ llamada.ret = FALSE) =>
       aportaciones_raw = llamada.antes

====
